---- MODULE Spec2Model ----
(***************************************************************************)
(* Verification model of houtini-ai/voice-analyser-mcp.                    *)
(*                                                                         *)
(* Part 1 models one corpus directory on disk and the three tools that    *)
(* read and write it: collectCorpus, analyzeCorpus and the two guide       *)
(* generators (generateStyleGuide of v3, generateNarrativeGuideV4).        *)
(* The later parts model the pure analyzers and statistics primitives;     *)
(* each is checked under a specification of its own whose Init draws the   *)
(* input from a bounded set.                                               *)
(***************************************************************************)
EXTENDS Integers, Sequences, FiniteSets, TLC

VARIABLES
    articles,     \* articles/ : NoDir, or a function  file name -> content
    corpusJson,   \* corpus.json : NoFile, or the parsed object
    analysis,     \* analysis/ : function  report name -> NoFile | content
    guide,        \* writing_style_<corpus>.md : NoFile, or its content
    result,       \* what the last tool call returned or threw
    input,        \* argument of the pure function under check
    output,       \* its return value (NotRun before the call)
    pc            \* "idle" for the directory model, "ready"/"done" otherwise

vars == <<articles, corpusJson, analysis, guide, result, input, output, pc>>

fsVars == <<articles, corpusJson, analysis, guide, result>>
pureVars == <<input, output, pc>>

(***************************************************************************)
(* Bounds of the model.                                                    *)
(***************************************************************************)
MaxUrls == 2          \* URLs in a sitemap after filtering and limiting

(***************************************************************************)
(* Values standing for JavaScript's special values.                        *)
(***************************************************************************)
NoFile == [js |-> "no file"]
NoDir == [js |-> "no directory"]
Null == [js |-> "null"]
Undefined == [js |-> "undefined"]
Throw == [js |-> "throw"]
NotRun == [js |-> "not run"]

\* obj.field of a parsed JSON object is undefined when the object has no such key
HasKey(obj, field) == field \in DOMAIN obj

\* a file of the corpus directory, named by (position, name); position 0 for
\* the files that carry no article number
FileName(i, name) == <<i, name>>

RECURSIVE SumSeq(_)
SumSeq(s) == IF s = <<>> THEN 0 ELSE Head(s) + SumSeq(Tail(s))

(***************************************************************************)
(* Part 1.  The corpus directory.                                          *)
(***************************************************************************)

\* the report files one of the two generators reads
ReportFiles ==
    { "vocabulary.json", "sentence.json", "voice.json", "paragraph.json",
      "punctuation.json", "function-words.json", "argument-flow.json",
      "paragraph-transitions.json", "vocabulary-tiers.json",
      "phrase-library.json" }

\* analyzeCorpus: the reports each analysis_type branch writes
VocabularyReports ==
    {"vocabulary.json", "vocabulary-tiers.json", "phrase-library.json"}
SyntaxReports == {"sentence.json", "punctuation.json", "paragraph.json"}
QuickReports ==
    { "voice.json", "function-words.json", "argument-flow.json",
      "paragraph-transitions.json" }

AnalysisTypes == {"full", "quick", "vocabulary", "syntax"}

\* the reports generateStyleGuide (v3) cannot do without
RequiredV3 ==
    { "vocabulary.json", "sentence.json", "voice.json", "argument-flow.json",
      "paragraph-transitions.json" }

\* the reports generateNarrativeGuideV4 reads
RequiredV4 ==
    { "vocabulary-tiers.json", "phrase-library.json", "voice.json",
      "sentence.json", "punctuation.json" }

Present(dir) == {f \in DOMAIN dir : dir[f] # NoFile}

\* article titles the extractor can return, and the words of each article
Titles == {"alpha"}
WordsOf(title) == IF title = "alpha" THEN 120 ELSE 300

\* what fetching and extracting one URL can come to
UrlOutcomes ==
    [kind : {"saved"}, title : Titles]
        \cup {[kind |-> "skipped", title |-> "-"], [kind |-> "failed", title |-> "-"]}

RECURSIVE SeqsUpTo(_, _)
SeqsUpTo(S, n) ==
    IF n = 0 THEN {<<>>}
    ELSE LET shorter == SeqsUpTo(S, n - 1)
         IN  shorter \cup {Append(s, x) : s \in {t \in shorter : Len(t) = n - 1}, x \in S}

(***************************************************************************)
(* collectCorpus                                                           *)
(***************************************************************************)
\* the article files the loop writes: one per URL whose extraction returned
\* an article, named by the URL's position and the title
RECURSIVE SavedFrom(_, _)
SavedFrom(fetched, i) ==
    IF i > Len(fetched) THEN <<>>
    ELSE (IF fetched[i].kind = "saved" THEN <<i>> ELSE <<>>) \o SavedFrom(fetched, i + 1)

SavedIdx(fetched) == SavedFrom(fetched, 1)

WrittenArticles(fetched) ==
    {FileName(i, fetched[i].title) : i \in {j \in 1..Len(fetched) : fetched[j].kind = "saved"}}

ArticlesAfterCollect(old, fetched) ==
    LET before == IF old = NoDir THEN <<>> ELSE old.files
        names == DOMAIN before \cup WrittenArticles(fetched)
    IN  [ files |-> [n \in names |->
            IF n \in WrittenArticles(fetched) THEN [title |-> n[2], wordCount |-> WordsOf(n[2])]
            ELSE before[n]] ]

\* the object collectCorpus serializes into corpus.json
CorpusData(fetched) ==
    LET saved == SavedIdx(fetched)
        titles == [k \in 1..Len(saved) |-> fetched[saved[k]].title]
        totalWords == SumSeq([k \in 1..Len(saved) |-> WordsOf(titles[k])])
    IN  [ articles |-> titles,
          statistics |-> [ total_articles |-> Len(saved),
                           total_words |-> totalWords ] ]

\* the event log of the loop, URL by URL: the fetch, then the file written
\* and the delay (an article was extracted), the delay alone (extraction
\* returned null: fewer than 100 words), or the entry pushed to errors (the
\* try block threw before its end, so its delay was not reached)
\* mutant of CollectTrace: the loop ends at the first URL that fails
RECURSIVE CollectTrace_StopsAtFailure(_, _)
CollectTrace_StopsAtFailure(fetched, i) ==
    IF i > Len(fetched) THEN <<>>
    ELSE IF fetched[i].kind = "failed"
         THEN <<[ev |-> "fetch", url |-> i], [ev |-> "error", url |-> i]>>
    ELSE <<[ev |-> "fetch", url |-> i]>>
         \o (IF fetched[i].kind = "saved" THEN <<[ev |-> "write", url |-> i]>> ELSE <<>>)
         \o <<[ev |-> "delay", url |-> i]>>
         \o CollectTrace_StopsAtFailure(fetched, i + 1)

RECURSIVE CollectTrace(_, _)
CollectTrace(fetched, i) ==
    IF i > Len(fetched) THEN <<>>
    ELSE <<[ev |-> "fetch", url |-> i]>>
         \o (CASE fetched[i].kind = "saved" ->
                     <<[ev |-> "write", url |-> i], [ev |-> "delay", url |-> i]>>
                [] fetched[i].kind = "skipped" -> <<[ev |-> "delay", url |-> i]>>
                [] fetched[i].kind = "failed" -> <<[ev |-> "error", url |-> i]>>)
         \o CollectTrace(fetched, i + 1)

CollectCorpus ==
    /\ pc = "idle"
    /\ \/ \* fetchSitemap throws: the articles directory exists by then
          /\ articles' = IF articles = NoDir THEN [files |-> <<>>] ELSE articles
          /\ result' = [op |-> "collect_corpus", outcome |-> "error",
                        error |-> "sitemap", written |-> {}, arg |-> "-"]
          /\ UNCHANGED corpusJson
       \/ \E fetched \in SeqsUpTo(UrlOutcomes, MaxUrls) :
          /\ articles' = ArticlesAfterCollect(articles, fetched)
          /\ corpusJson' = CorpusData(fetched)
          /\ result' = [op |-> "collect_corpus", outcome |-> "ok",
                        error |-> "none", arg |-> "-",
                        written |-> WrittenArticles(fetched) \cup {FileName(0, "corpus.json")},
                        urls |-> Len(fetched),
                        trace |-> CollectTrace(fetched, 1)]
    /\ UNCHANGED <<analysis, guide, pureVars>>

(***************************************************************************)
(* analyzeCorpus                                                           *)
(***************************************************************************)
ReportsOfType(type) ==
    (IF type \in {"full", "vocabulary"} THEN VocabularyReports ELSE {})
    \cup (IF type \in {"full", "syntax"} THEN SyntaxReports ELSE {})
    \cup (IF type \in {"full", "quick"} THEN QuickReports ELSE {})

\* every report holds statistics of the article set it was computed from
AnalysisAfter(dir, type, arts) ==
    [f \in DOMAIN dir |->
        IF f \in ReportsOfType(type) THEN [from |-> DOMAIN arts.files] ELSE dir[f]]

AnalyzeCorpus ==
    /\ pc = "idle"
    /\ \E type \in AnalysisTypes :
        IF articles = NoDir
        THEN /\ result' = [op |-> "analyze_corpus", outcome |-> "error",
                           error |-> "readdir articles", written |-> {}, arg |-> type]
             /\ UNCHANGED analysis
        ELSE /\ analysis' = AnalysisAfter(analysis, type, articles)
             /\ result' = [op |-> "analyze_corpus", outcome |-> "ok",
                           error |-> "none", arg |-> type,
                           written |-> {FileName(0, f) : f \in ReportsOfType(type)}]
    /\ UNCHANGED <<articles, corpusJson, guide, pureVars>>

(***************************************************************************)
(* generateStyleGuide (v3)                                                 *)
(***************************************************************************)
\* mutant of loadJSON: a missing file throws whether optional or not
loadJSON_NeverOptional(dir, filename, optional) ==
    IF dir[filename] # NoFile THEN dir[filename] ELSE Throw

loadJSON(dir, filename, optional) ==
    IF dir[filename] # NoFile THEN dir[filename]
    ELSE IF optional THEN Null ELSE Throw

\* mutant of MissingFlowReports: only argument-flow.json is checked
MissingFlowReports_OnlyArgumentFlow(argumentFlow, paragraphTransitions) ==
    argumentFlow = Null

\* line 63: the check on the two reports that are loaded as optional
MissingFlowReports(argumentFlow, paragraphTransitions) ==
    argumentFlow = Null \/ paragraphTransitions = Null

\* the reports generateStyleGuide (v3) writes the guide without when they
\* are missing
OptionalV3 == {"paragraph.json", "punctuation.json", "function-words.json"}

\* generateExecutableGuide reads metadata.wordCount.toLocaleString() first:
\* a TypeError when corpus.json has no wordCount key; the lines drawn from
\* paragraph, punctuation and functionWords are pushed only for those that
\* are not null
generateExecutableGuide(metadata, paragraph, punctuation, functionWords) ==
    IF ~HasKey(metadata, "wordCount") THEN Throw
    ELSE [ wordCount |-> metadata.wordCount,
           articleCount |-> metadata.articleCount,
           drawnFrom |->
               (IF paragraph # Null THEN {"paragraph.json"} ELSE {})
               \cup (IF punctuation # Null THEN {"punctuation.json"} ELSE {})
               \cup (IF functionWords # Null THEN {"function-words.json"} ELSE {}) ]

\* the outcome of one call: [outcome, error, guide] where guide is the
\* content of the guide file after the call
generateStyleGuideInternal(arts, meta, dir, oldGuide) ==
    LET vocab == loadJSON(dir, "vocabulary.json", FALSE)
        sentence == loadJSON(dir, "sentence.json", FALSE)
        voice == loadJSON(dir, "voice.json", FALSE)
        paragraph == loadJSON(dir, "paragraph.json", TRUE)
        punctuation == loadJSON(dir, "punctuation.json", TRUE)
        functionWords == loadJSON(dir, "function-words.json", TRUE)
        argumentFlow == loadJSON(dir, "argument-flow.json", TRUE)
        paragraphTransitions == loadJSON(dir, "paragraph-transitions.json", TRUE)
        failed(why) == [outcome |-> "error", error |-> why, guide |-> oldGuide]
        text == generateExecutableGuide(meta, paragraph, punctuation, functionWords)
    IN  IF Throw \in {vocab, sentence, voice, paragraph, punctuation, functionWords,
                      argumentFlow, paragraphTransitions}
        THEN failed("ENOENT report")
        ELSE IF Null \in {vocab, sentence, voice} THEN failed("Missing required")
        ELSE IF MissingFlowReports(argumentFlow, paragraphTransitions)
             THEN failed("Missing flow reports")
        ELSE IF arts = NoDir THEN failed("readdir articles")
        ELSE IF meta = NoFile THEN failed("ENOENT corpus.json")
        ELSE IF text = Throw THEN failed("TypeError wordCount")
        ELSE [outcome |-> "ok", error |-> "none", guide |-> text]

GenerateStyleGuide ==
    /\ pc = "idle"
    /\ LET r == generateStyleGuideInternal(articles, corpusJson, analysis, guide)
       IN  /\ guide' = r.guide
           /\ result' = [op |-> "generateStyleGuide", outcome |-> r.outcome,
                         error |-> r.error, arg |-> "-",
                         written |-> IF r.outcome = "ok"
                                     THEN {FileName(0, "writing_style.md")} ELSE {}]
    /\ UNCHANGED <<articles, corpusJson, analysis, pureVars>>

(***************************************************************************)
(* generateNarrativeGuideV4: returns the guide text, writes nothing        *)
(***************************************************************************)
V4Reads ==
    << "vocabulary-tiers.json", "phrase-library.json", "voice.json",
       "sentence.json", "punctuation.json" >>

generateNarrativeGuideV4(dir) ==
    IF \E i \in 1..Len(V4Reads) : dir[V4Reads[i]] = NoFile
    THEN [outcome |-> "error", error |-> "ENOENT report", text |-> Undefined]
    ELSE [outcome |-> "ok", error |-> "none",
          text |-> [js |-> "guide text"]]

GenerateNarrativeGuideV4 ==
    /\ pc = "idle"
    /\ LET r == generateNarrativeGuideV4(analysis)
       IN  result' = [op |-> "generateNarrativeGuideV4", outcome |-> r.outcome,
                      error |-> r.error, written |-> {}, arg |-> "-",
                      text |-> r.text]
    /\ UNCHANGED <<articles, corpusJson, analysis, guide, pureVars>>

(***************************************************************************)
(* The directory before the first call is whatever the caller points the  *)
(* tools at: nothing yet, or a corpus prepared earlier (articles, a        *)
(* corpus.json carrying wordCount/articleCount, any subset of reports).    *)
(***************************************************************************)
PreparedArticles ==
    [files |-> [n \in {FileName(1, "alpha")} |-> [title |-> "alpha", wordCount |-> 120]]]
PreparedCorpusJson == [wordCount |-> 120, articleCount |-> 1]
External == [from |-> {FileName(0, "external")}]

\* no report, every report, or every report but one
PreparedReports == {{}, ReportFiles} \cup {ReportFiles \ {f} : f \in ReportFiles}

Init ==
    /\ \/ /\ articles = NoDir
          /\ corpusJson = NoFile
          /\ analysis = [f \in ReportFiles |-> NoFile]
       \/ /\ articles = PreparedArticles
          /\ corpusJson = PreparedCorpusJson
          /\ \E have \in PreparedReports :
                analysis = [f \in ReportFiles |-> IF f \in have THEN External ELSE NoFile]
    /\ guide = NoFile
    /\ result = [op |-> "none", outcome |-> "none", error |-> "none", written |-> {},
                 arg |-> "-"]
    /\ input = <<>>
    /\ output = NotRun
    /\ pc = "idle"

Next ==
    \/ CollectCorpus
    \/ AnalyzeCorpus
    \/ GenerateStyleGuide
    \/ GenerateNarrativeGuideV4

Spec == Init /\ [][Next]_vars

(***************************************************************************)
(* Claims on the corpus directory (checked under Spec).                    *)
(***************************************************************************)

\* C1: a generator call made while one of the reports it requires is absent
\* from analysis/ ends in an error, leaves the guide file as it was (not
\* created, not overwritten) and returns no guide text.
C1_FailsClosed ==
    [][ /\ ( /\ result'.op = "generateStyleGuide"
              /\ ~(RequiredV3 \subseteq Present(analysis)) )
           => ( result'.outcome = "error" /\ guide' = guide /\ result'.written = {} )
        /\ ( /\ result'.op = "generateNarrativeGuideV4"
              /\ ~(RequiredV4 \subseteq Present(analysis)) )
           => ( result'.outcome = "error" /\ guide' = guide /\ result'.text = Undefined )
      ]_vars

\* C1 witness: generateStyleGuide has just failed on a directory in which
\* only paragraph-transitions.json is missing and everything else it reads
\* (articles, a corpus.json with wordCount) is in place.
C1_Witness ==
    /\ result.op = "generateStyleGuide"
    /\ result.outcome = "error"
    /\ RequiredV3 \ Present(analysis) = {"paragraph-transitions.json"}
    /\ articles # NoDir
    /\ corpusJson # NoFile
    /\ HasKey(corpusJson, "wordCount")
    /\ guide = NoFile

\* the state the pipeline is in when collect_corpus has written corpus.json
\* and analyze_corpus 'full' has just completed on the collected articles
CollectedAndAnalyzed ==
    /\ result.op = "analyze_corpus"
    /\ result.outcome = "ok"
    /\ result.arg = "full"
    /\ corpusJson # NoFile
    /\ HasKey(corpusJson, "statistics")
    /\ corpusJson.statistics.total_articles > 0

\* C2 (as claimed): after collect_corpus and a full analyze_corpus, the next
\* generateStyleGuide call succeeds, writes exactly the one guide file, and
\* the guide carries the word and article counts of collect's corpus.json.
C2_PipelineProducesGuide ==
    [][ (CollectedAndAnalyzed /\ result'.op = "generateStyleGuide")
           => /\ result'.outcome = "ok"
              /\ result'.written = {FileName(0, "writing_style.md")}
              /\ guide'.wordCount = corpusJson.statistics.total_words
              /\ guide'.articleCount = corpusJson.statistics.total_articles
      ]_vars

(***************************************************************************)
(* Part 2.  Numbers.                                                       *)
(*                                                                         *)
(* The statistics are computed on JavaScript doubles.  The model keeps     *)
(* them exact: a number is (p + q * sqrt(rad)) / den with integers p, q,   *)
(* rad >= 0 and den > 0 (q = 0 for a rational), or one of the three        *)
(* non-finite doubles.  Comparisons are decided by sign analysis, so no    *)
(* rounding error of the model's own enters a verdict.                     *)
(***************************************************************************)
Num(p, q, rad, den) == [k |-> "fin", p |-> p, q |-> q, rad |-> rad, den |-> den]
Rat(n, d) == Num(n, 0, 0, d)
IntNum(n) == Num(n, 0, 0, 1)
NaN == [k |-> "nan", p |-> 0, q |-> 0, rad |-> 0, den |-> 1]
PosInfinity == [k |-> "inf", p |-> 1, q |-> 0, rad |-> 0, den |-> 1]
NegInfinity == [k |-> "inf", p |-> -1, q |-> 0, rad |-> 0, den |-> 1]

IsFinite(x) == x.k = "fin"

Sgn(n) == IF n > 0 THEN 1 ELSE IF n < 0 THEN -1 ELSE 0

\* the sign of p + q * sqrt(rad)
SurdSign(p, q, rad) ==
    IF q = 0 \/ rad = 0 THEN Sgn(p)
    ELSE IF p = 0 THEN Sgn(q)
    ELSE IF Sgn(p) = Sgn(q) THEN Sgn(p)
    ELSE IF p * p > q * q * rad THEN Sgn(p)
    ELSE IF p * p = q * q * rad THEN 0
    ELSE Sgn(q)

Sign(x) == SurdSign(x.p, x.q, x.rad)

\* x + y and x - y of two finite numbers over the same radical
Add(x, y) ==
    Num(x.p * y.den + y.p * x.den, x.q * y.den + y.q * x.den,
        IF x.q # 0 THEN x.rad ELSE y.rad, x.den * y.den)
Neg(x) == Num(-x.p, -x.q, x.rad, x.den)
Sub(x, y) == Add(x, Neg(y))
Mul(x, y) ==
    LET rad == IF x.q # 0 THEN x.rad ELSE y.rad
    IN  Num(x.p * y.p + x.q * y.q * rad, x.p * y.q + x.q * y.p, rad, x.den * y.den)

Eq(x, y) == Sign(Sub(x, y)) = 0
Lt(x, y) == Sign(Sub(x, y)) < 0
Leq(x, y) == Sign(Sub(x, y)) <= 0

\* a / b on doubles, for rational a and b: 0/0 is NaN, x/0 is an infinity
Div(a, b) ==
    IF b.p = 0
    THEN IF a.p = 0 THEN NaN ELSE IF a.p > 0 THEN PosInfinity ELSE NegInfinity
    ELSE Rat(a.p * b.den * Sgn(b.p), a.den * b.p * Sgn(b.p))

RECURSIVE Gcd(_, _)
Gcd(a, b) == IF b = 0 THEN a ELSE Gcd(b, a % b)

\* the largest k whose square divides r (r > 0)
SquareFactor(r) ==
    LET ks == {k \in 1..r : k * k <= r /\ r % (k * k) = 0}
    IN  CHOOSE k \in ks : \A j \in ks : j <= k

\* Math.sqrt of a non-negative rational: with n/d in lowest terms,
\* n = kn^2 * mn and d = kd^2 * md, it is kn * sqrt(mn * md) / (kd * md); the
\* square factors are taken out so that equal roots have equal radicals
Sqrt(x) ==
    IF x.p = 0 THEN IntNum(0)
    ELSE LET g == Gcd(x.p, x.den)
             n == x.p \div g
             d == x.den \div g
             kn == SquareFactor(n)
             kd == SquareFactor(d)
             mn == n \div (kn * kn)
             md == d \div (kd * kd)
         IN  IF mn * md = 1 THEN Rat(kn, kd) ELSE Num(0, kn, mn * md, kd * md)

\* Math.floor and Math.round (round half up) of a finite number known to
\* lie in lo..hi; Math.round(NaN) is NaN
Floor(x, lo, hi) == CHOOSE k \in lo..hi : Leq(IntNum(k), x) /\ Lt(x, IntNum(k + 1))
Round(x, lo, hi) ==
    IF ~IsFinite(x) THEN x
    ELSE IntNum(Floor(Add(x, Rat(1, 2)), lo, hi))

MinNum(x, y) == IF Leq(x, y) THEN x ELSE y
MaxNum(x, y) == IF Leq(x, y) THEN y ELSE x

\* a quotient num / den of two finite numbers with den # 0, kept as the pair
Quot(num, den) == [num |-> num, den |-> den]
QuotOfInt(n) == Quot(IntNum(n), IntNum(1))
\* the sign of q - c for a quotient q and an integer c
QuotCmp(q, c) == Sign(Sub(q.num, Mul(IntNum(c), q.den))) * Sign(q.den)
QuotEq(a, b) == Eq(Mul(a.num, b.den), Mul(b.num, a.den))

(***************************************************************************)
(* Part 3.  Statistics primitives (utils/statistics, advanced-statistics,  *)
(* zscore).                                                                *)
(***************************************************************************)
MaxLen == 4           \* longest numeric sequence drawn as an input
MaxValue == 3         \* inputs range over -MaxValue..MaxValue

\* mean of a sequence of integers
mean(values) ==
    IF Len(values) = 0 THEN IntNum(0)
    ELSE Rat(SumSeq(values), Len(values))

\* standardDeviation: the square root of the mean of the squared differences
\* from the mean.  With S the sum and n the length, (v - S/n)^2 is
\* (n*v - S)^2 / n^2; their mean is W / n^3 for W the sum of the (n*v - S)^2.
standardDeviation(values) ==
    IF Len(values) = 0 THEN IntNum(0)
    ELSE LET n == Len(values)
             avg == mean(values)
             squareDiffs == [i \in 1..n |-> (n * values[i] - avg.p) * (n * values[i] - avg.p)]
         IN  Sqrt(Rat(SumSeq(squareDiffs), n * n * n))

\* mutant of burstiness: numerator and denominator exchanged
burstiness_Inverted(values) ==
    IF Len(values) < 2 THEN QuotOfInt(0)
    ELSE LET avg == mean(values)
             stdDev == standardDeviation(values)
         IN  IF Sign(Sub(stdDev, avg)) = 0 THEN QuotOfInt(0)
             ELSE Quot(Add(stdDev, avg), Sub(stdDev, avg))

\* mutant of burstiness: the guard on sequences shorter than 2 dropped
burstiness_NoLengthGuard(values) ==
    LET avg == mean(values)
        stdDev == standardDeviation(values)
    IN  IF Sign(Add(stdDev, avg)) = 0 THEN QuotOfInt(0)
        ELSE Quot(Sub(stdDev, avg), Add(stdDev, avg))

burstiness(values) ==
    IF Len(values) < 2 THEN QuotOfInt(0)
    ELSE LET avg == mean(values)
             stdDev == standardDeviation(values)
         IN  IF Sign(Add(stdDev, avg)) = 0 THEN QuotOfInt(0)
             ELSE Quot(Sub(stdDev, avg), Add(stdDev, avg))

(***************************************************************************)
(* SpecStats: a numeric sequence is drawn, a primitive is applied to it.   *)
(***************************************************************************)
FsIdle ==
    /\ articles = NoDir
    /\ corpusJson = NoFile
    /\ analysis = [f \in ReportFiles |-> NoFile]
    /\ guide = NoFile
    /\ result = [op |-> "none", outcome |-> "none", error |-> "none", written |-> {},
                 arg |-> "-"]

InitStats ==
    /\ FsIdle
    /\ input \in SeqsUpTo(-MaxValue..MaxValue, MaxLen)
    /\ output = NotRun
    /\ pc = "ready"

Burstiness ==
    /\ pc = "ready"
    /\ output' = [fn |-> "burstiness", value |-> burstiness(input)]
    /\ pc' = "done"
    /\ UNCHANGED <<fsVars, input>>

Ran(fn) == pc = "done" /\ output.fn = fn

NonNegative(values) == \A i \in 1..Len(values) : values[i] >= 0

\* the burstiness coefficient as the specification states it, from the sum
\* and the sum of squares: stddev = sqrt(n*Q - S^2)/n, mean = S/n
RECURSIVE SumSquares(_)
SumSquares(s) == IF s = <<>> THEN 0 ELSE Head(s) * Head(s) + SumSquares(Tail(s))

StatedBurstiness(values) ==
    LET n == Len(values)
        S == SumSeq(values)
        sd == Sqrt(Rat(n * SumSquares(values) - S * S, n * n))
        mu == Rat(S, n)
    IN  IF Sign(sd) = 0 /\ Sign(mu) = 0 THEN QuotOfInt(0)
        ELSE Quot(Sub(sd, mu), Add(sd, mu))

AllEqualPositive(values) ==
    /\ Len(values) >= 1
    /\ values[1] > 0
    /\ \A i \in 1..Len(values) : values[i] = values[1]

C10_FormulaForEveryLength ==
    (Ran("burstiness") /\ Len(input) >= 1 /\ NonNegative(input))
        => /\ QuotEq(output.value, StatedBurstiness(input))
           /\ AllEqualPositive(input) => QuotCmp(output.value, -1) = 0

\* C10 (amended): for every sequence v of at least two word counts,
\* burstiness(v) is (stddev - mean) / (stddev + mean), 0 when both are 0, and
\* -1 for equal positive values; for a single word count it is 0.
C10_FormulaFromLengthTwo ==
    (Ran("burstiness") /\ Len(input) >= 1 /\ NonNegative(input))
        => /\ Len(input) >= 2 => QuotEq(output.value, StatedBurstiness(input))
           /\ (Len(input) >= 2 /\ AllEqualPositive(input)) => QuotCmp(output.value, -1) = 0
           /\ Len(input) = 1 => QuotCmp(output.value, 0) = 0

\* C10 witness: burstiness has run on four equal positive word counts and
\* returned -1.
C10_Witness ==
    /\ Ran("burstiness")
    /\ Len(input) = 4
    /\ AllEqualPositive(input)
    /\ QuotCmp(output.value, -1) = 0

(***************************************************************************)
(* Part 4.  Strings.                                                       *)
(*                                                                         *)
(* A string is the sequence of its characters, each a one-character        *)
(* string, so that the tokenizers of the analyzers (split on a regular     *)
(* expression, trim, toLowerCase, character-class replace) are computed    *)
(* character by character as the code computes them.                       *)
(***************************************************************************)
LowerCase ==
    << "a", "b", "c", "d", "e", "f", "g", "h", "i", "j", "k", "l", "m",
       "n", "o", "p", "q", "r", "s", "t", "u", "v", "w", "x", "y", "z" >>
UpperCase ==
    << "A", "B", "C", "D", "E", "F", "G", "H", "I", "J", "K", "L", "M",
       "N", "O", "P", "Q", "R", "S", "T", "U", "V", "W", "X", "Y", "Z" >>
DigitChars == <<"0", "1", "2", "3", "4", "5", "6", "7", "8", "9">>

Letters == {LowerCase[i] : i \in 1..26} \cup {UpperCase[i] : i \in 1..26}
Digits == {DigitChars[i] : i \in 1..10}

toLowerCaseChar(c) ==
    IF \E i \in 1..26 : UpperCase[i] = c
    THEN LowerCase[CHOOSE i \in 1..26 : UpperCase[i] = c]
    ELSE c

\* String.prototype.toLowerCase
toLowerCase(s) == [i \in 1..Len(s) |-> toLowerCaseChar(s[i])]

\* the character classes of the regular expressions the analyzers use
WordChars == Letters \cup Digits \cup {"_"}
WhiteSpace == {" ", "\n", "\t", "\r"}
SentenceEnd == {".", "!", "?"}

\* does character c belong to class cls:  \s  \W  [.!?]  [^\w'-]
InClass(c, cls) ==
    CASE cls = "\\s" -> c \in WhiteSpace
      [] cls = "\\W" -> c \notin WordChars
      [] cls = "[.!?]" -> c \in SentenceEnd
      [] cls = "[^\\w'-]" -> c \notin WordChars \cup {"'", "-"}

\* the last position of the maximal run of characters of chars from position i
RunEnd(s, i, chars) ==
    IF \E k \in i..Len(s) : s[k] \notin chars
    THEN (CHOOSE k \in i..Len(s) : s[k] \notin chars /\ \A m \in i..(k - 1) : s[m] \in chars) - 1
    ELSE Len(s)

\* F applied to the value of v, with v computed once
Let(v, F(_)) == CHOOSE r \in {F(x) : x \in {v}} : TRUE

\* the members of a set of positions in increasing order
Ascending(positions) ==
    Let(positions, LAMBDA ps :
        [k \in 1..Cardinality(ps) |->
            CHOOSE i \in ps : Cardinality({j \in ps : j < i}) = k - 1])

\* s.split(/cls+/): the fields between the maximal runs of class characters,
\* computed from the positions where a field starts; a leading or trailing
\* run leaves an empty field, '' splits into ['']
split(s, cls) ==
    IF s = <<>> THEN << <<>> >>
    ELSE Let({i \in 1..Len(s) : InClass(s[i], cls)}, LAMBDA seps :
             Let({i \in 1..Len(s) : i \notin seps /\ (i = 1 \/ (i - 1) \in seps)}, LAMBDA starts :
                 (IF 1 \in seps THEN << <<>> >> ELSE <<>>)
                 \o [k \in 1..Cardinality(starts) |->
                        Let(CHOOSE i \in starts : Cardinality({j \in starts : j < i}) = k - 1,
                            LAMBDA b : SubSeq(s, b, RunEnd(s, b, {s[x] : x \in (1..Len(s)) \ seps})))]
                 \o (IF Len(s) \in seps THEN << <<>> >> ELSE <<>>)))

\* s.split(/cls/)[0]: the text before the first class character
RECURSIVE firstField(_, _)
firstField(s, cls) ==
    IF s = <<>> \/ InClass(Head(s), cls) THEN <<>>
    ELSE <<Head(s)>> \o firstField(Tail(s), cls)

RECURSIVE dropNewlines(_)
dropNewlines(s) ==
    IF s # <<>> /\ Head(s) = "\n" THEN dropNewlines(Tail(s)) ELSE s

\* s.split(/\n\n+/): the fields between the runs of two or more newlines
RECURSIVE splitParagraphs(_)
splitParagraphs(s) ==
    IF s = <<>> THEN << <<>> >>
    ELSE IF Len(s) >= 2 /\ s[1] = "\n" /\ s[2] = "\n"
         THEN << <<>> >> \o splitParagraphs(dropNewlines(s))
         ELSE LET rest == splitParagraphs(Tail(s))
              IN  << <<Head(s)>> \o Head(rest) >> \o Tail(rest)

RECURSIVE trimStart(_)
trimStart(s) ==
    IF s # <<>> /\ Head(s) \in WhiteSpace THEN trimStart(Tail(s)) ELSE s

RECURSIVE trimEnd(_)
trimEnd(s) ==
    IF s # <<>> /\ s[Len(s)] \in WhiteSpace THEN trimEnd(SubSeq(s, 1, Len(s) - 1)) ELSE s

\* String.prototype.trim
trim(s) == trimEnd(trimStart(s))

NonEmpty(w) == w # <<>>

\* s.replace(/cls/g, ''): the characters outside the class
removeClass(s, cls) == SelectSeq(s, LAMBDA c : ~InClass(c, cls))

\* the concatenation of a sequence of strings
RECURSIVE Flatten(_)
Flatten(ss) == IF ss = <<>> THEN <<>> ELSE Head(ss) \o Flatten(Tail(ss))

\* the number of positions of a sequence whose element satisfies a test
Count(s, Test(_)) == Cardinality({i \in 1..Len(s) : Test(s[i])})

\* is position pos (between s[pos - 1] and s[pos]) a word boundary, \b
Boundary(s, pos) ==
    LET before == pos > 1 /\ s[pos - 1] \in WordChars
        after == pos <= Len(s) /\ s[pos] \in WordChars
    IN  before # after

\* the number of matches of new RegExp('\\b' + word + '\\b', 'gi') in s
MatchAt(s, i, word) ==
    /\ i + Len(word) - 1 <= Len(s)
    /\ \A j \in 1..Len(word) : toLowerCaseChar(s[i + j - 1]) = toLowerCaseChar(word[j])
    /\ Boundary(s, i)
    /\ Boundary(s, i + Len(word))
CountMatches(s, word) == Cardinality({i \in 1..Len(s) : MatchAt(s, i, word)})

(***************************************************************************)
(* The texts the analyzers are run on: every concatenation of at most      *)
(* MaxPieces pieces, a piece being a word, a separator, a paragraph break  *)
(* or three one-word sentences.                                            *)
(***************************************************************************)
MaxPieces == 3

Pieces ==
    { <<"I">>, <<"a">>, <<"t", "h", "e">>,
      <<"d", "e", "l", "v", "e">>,
      <<"c", "u", "t", "t", "i", "n", "g", "-", "e", "d", "g", "e">>,
      <<"s", "u", "f", "f", "i", "c", "i", "e", "n", "t">>,
      <<"a", ".", "a", ".", "a", ".">>,
      <<" ">>, <<".">>, <<"\n", "\n">> }

Texts == {Flatten(ps) : ps \in SeqsUpTo(Pieces, MaxPieces)}

\* empty or whitespace only
IsBlank(text) == \A i \in 1..Len(text) : text[i] \in WhiteSpace

(***************************************************************************)
(* Part 5.  analyzeAntiMechanical (analyzers/function-words.ts).           *)
(***************************************************************************)
\* x / r and x * n / d for a number x and a non-zero rational
DivRat(x, r) == Num(x.p * r.den * Sgn(r.p), x.q * r.den * Sgn(r.p), x.rad, x.den * r.p * Sgn(r.p))
Scale(x, n, d) == Num(x.p * n, x.q * n, x.rad, x.den * d)

\* the sign of P + A * sqrt(r) + B * sqrt(s): when the two parts disagree,
\* the sign of (P + A * sqrt(r))^2 - B^2 * s decides
Sign3(P, A, r, B, s) ==
    LET sx == SurdSign(P, A, r)
        sy == IF s = 0 THEN 0 ELSE Sgn(B)
        d == SurdSign(P * P + A * A * r - B * B * s, 2 * P * A, r)
    IN  IF sy = 0 THEN sx
        ELSE IF sx = 0 THEN sy
        ELSE IF sx = sy THEN sx
        ELSE IF d > 0 THEN sx ELSE IF d < 0 THEN sy ELSE 0

\* the sign of x + y for two numbers over radicals of their own
SumSign(x, y) ==
    Sign3(x.p * y.den + y.p * x.den, x.q * y.den, x.rad, y.q * x.den, y.rad)

\* Math.round(x + y) for a sum known to lie in lo..hi
RoundSum(x, y, lo, hi) ==
    LET half == Add(x, Rat(1, 2))
    IN  IntNum(CHOOSE k \in lo..hi :
                  /\ SumSign(Sub(half, IntNum(k)), y) >= 0
                  /\ SumSign(Sub(half, IntNum(k + 1)), y) < 0)

Max(a, b) == IF a >= b THEN a ELSE b

calculateMean(values) ==
    IF Len(values) = 0 THEN IntNum(0)
    ELSE Rat(SumSeq(values), Len(values))

\* with S the sum and n the length, (v - S/n)^2 is (n*v - S)^2 / n^2
calculateStdDev(values) ==
    IF Len(values) = 0 THEN IntNum(0)
    ELSE LET n == Len(values)
             S == SumSeq(values)
             squaredDiffs == [i \in 1..n |-> (n * values[i] - S) * (n * values[i] - S)]
         IN  Sqrt(Rat(SumSeq(squaredDiffs), n * n * n))

\* trimmed.match(/^["']?(\w+)/), lowercased; '' when there is no match
getFirstWord(sentence) ==
    LET trimmed == trim(sentence)
        start == IF trimmed # <<>> /\ Head(trimmed) \in {"\"", "'"}
                 THEN Tail(trimmed) ELSE trimmed
    IN  toLowerCase(firstField(start, "\\W"))

\* the sentences and the paragraphs of a text
sentencesOf(text) ==
    SelectSeq([i \in 1..Len(split(text, "[.!?]")) |-> trim(split(text, "[.!?]")[i])], NonEmpty)
paragraphsOf(text) ==
    SelectSeq([i \in 1..Len(splitParagraphs(text)) |-> trim(splitParagraphs(text)[i])], NonEmpty)

\* the loop over the sentences that finds the longest run starting with "I"
RECURSIVE consecutiveI(_, _, _, _)
consecutiveI(firstWords, i, current, best) ==
    IF i > Len(firstWords) THEN best
    ELSE IF firstWords[i] = <<"i">>
         THEN consecutiveI(firstWords, i + 1, current + 1, Max(best, current + 1))
         ELSE consecutiveI(firstWords, i + 1, 0, best)

\* the loop over firstWords[1..] that finds the longest run of equal first
\* words and the words repeated three times or more
RECURSIVE repetitiveStarts(_, _, _, _, _, _)
repetitiveStarts(firstWords, i, currentConsecutive, currentWord, maxConsecutiveSame, patterns) ==
    IF i > Len(firstWords)
    THEN [ maxConsecutiveSameStart |-> Max(maxConsecutiveSame, currentConsecutive),
           problematicPatterns |-> patterns ]
    ELSE IF firstWords[i] = currentWord /\ Len(currentWord) > 0
         THEN repetitiveStarts(firstWords, i + 1, currentConsecutive + 1, currentWord,
                  maxConsecutiveSame,
                  IF currentConsecutive + 1 >= 3
                        /\ \A k \in 1..Len(patterns) : patterns[k] # currentWord
                  THEN Append(patterns, currentWord) ELSE patterns)
         ELSE repetitiveStarts(firstWords, i + 1, 1, firstWords[i],
                  Max(maxConsecutiveSame, currentConsecutive), patterns)

analyzeAntiMechanical(text) ==
    LET sentences == sentencesOf(text)
        paragraphs == paragraphsOf(text)
        \* sentence length variation
        sentenceLengths == [i \in 1..Len(sentences) |-> Len(split(sentences[i], "\\s"))]
        meanLength == calculateMean(sentenceLengths)
        stdDevLength == calculateStdDev(sentenceLengths)
        cv == IF Sign(meanLength) > 0 THEN DivRat(stdDevLength, meanLength) ELSE IntNum(0)
        distribution ==
            [ short |-> Count(sentenceLengths, LAMBDA l : l >= 1 /\ l <= 8),
              medium |-> Count(sentenceLengths, LAMBDA l : l >= 9 /\ l <= 20),
              long |-> Count(sentenceLengths, LAMBDA l : l >= 21 /\ l <= 40),
              veryLong |-> Count(sentenceLengths, LAMBDA l : l > 40) ]
        \* paragraph asymmetry
        paragraphSentenceCounts ==
            [i \in 1..Len(paragraphs) |->
                Len(SelectSeq(split(paragraphs[i], "[.!?]"), LAMBDA s : Len(trim(s)) > 0))]
        meanParagraphSentences == calculateMean(paragraphSentenceCounts)
        stdDevParagraph == calculateStdDev(paragraphSentenceCounts)
        symmetryScore == IF Sign(meanParagraphSentences) > 0
                         THEN DivRat(stdDevParagraph, meanParagraphSentences)
                         ELSE IntNum(0)
        singleSentenceParagraphs == Count(paragraphSentenceCounts, LAMBDA c : c = 1)
        longParagraphs == Count(paragraphSentenceCounts, LAMBDA c : c >= 5)
        \* first-person distribution: every alternative of the pattern starts
        \* with I and a word boundary, and the first alternative is I itself
        firstWords == [i \in 1..Len(sentences) |-> getFirstWord(sentences[i])]
        totalFirstPerson ==
            SumSeq([i \in 1..Len(sentences) |-> CountMatches(sentences[i], <<"I">>)])
        sentenceStartFirstPerson == Count(firstWords, LAMBDA w : w = <<"i">>)
        sentenceStartRatio == IF Len(sentences) > 0
                              THEN Rat(sentenceStartFirstPerson, Len(sentences))
                              ELSE IntNum(0)
        maxConsecutiveI == consecutiveI(firstWords, 1, 0, 0)
        \* repetitive starts
        starts == IF Len(firstWords) = 0
                  THEN [maxConsecutiveSameStart |-> 1, problematicPatterns |-> <<>>]
                  ELSE repetitiveStarts(firstWords, 2, 1, firstWords[1], 0, <<>>)
        maxConsecutiveSame == starts.maxConsecutiveSameStart
        \* scores
        categoriesPresent ==
            Cardinality({c \in {"short", "medium", "long", "veryLong"} : distribution[c] > 0})
        sentenceVariationScore ==
            MinNum(IntNum(25),
                   Add(MinNum(IntNum(25), Scale(cv, 125, 4)),
                       Rat((categoriesPresent - 2) * 5, 2)))
        paragraphVariationScore ==
            Add(IntNum((IF singleSentenceParagraphs > 0 THEN 8 ELSE 0)
                       + (IF longParagraphs > 0 THEN 8 ELSE 0)),
                MinNum(IntNum(9), Scale(symmetryScore, 15, 1)))
        firstPersonScore ==
            Max(0, 25 - (IF Lt(Rat(1, 2), sentenceStartRatio) THEN 15
                         ELSE IF Lt(Rat(3, 10), sentenceStartRatio) THEN 8 ELSE 0)
                      - (IF maxConsecutiveI >= 4 THEN 10
                         ELSE IF maxConsecutiveI >= 3 THEN 5 ELSE 0))
        repetitionScore ==
            Max(0, 25 - (IF maxConsecutiveSame >= 5 THEN 20
                         ELSE IF maxConsecutiveSame >= 4 THEN 12
                         ELSE IF maxConsecutiveSame >= 3 THEN 6 ELSE 0))
        totalScore ==
            RoundSum(Add(sentenceVariationScore, IntNum(firstPersonScore + repetitionScore)),
                     paragraphVariationScore, -5, 100)
    IN  [ sentenceLengthVariation |->
            [ mean |-> meanLength, stdDev |-> stdDevLength,
              coefficientOfVariation |-> cv, distribution |-> distribution,
              hasNaturalVariation |-> Lt(Rat(1, 2), cv) ],
          paragraphAsymmetry |->
            [ meanSentences |-> meanParagraphSentences, stdDev |-> stdDevParagraph,
              symmetryScore |-> symmetryScore,
              singleSentenceParagraphs |-> singleSentenceParagraphs,
              longParagraphs |-> longParagraphs ],
          firstPersonDistribution |->
            [ totalCount |-> totalFirstPerson,
              sentenceStartCount |-> sentenceStartFirstPerson,
              sentenceStartRatio |-> sentenceStartRatio,
              consecutiveIStart |-> maxConsecutiveI,
              isBalanced |-> Lt(sentenceStartRatio, Rat(3, 10)) ],
          repetitiveStarts |->
            [ maxConsecutiveSameStart |-> maxConsecutiveSame,
              problematicPatterns |-> starts.problematicPatterns,
              hasRepetitionProblem |-> maxConsecutiveSame >= 3 ],
          naturalness |->
            [ sentenceVariationScore |-> Round(sentenceVariationScore, -5, 25),
              paragraphVariationScore |-> Round(paragraphVariationScore, 0, 25),
              firstPersonScore |-> IntNum(firstPersonScore),
              repetitionScore |-> IntNum(repetitionScore),
              totalScore |-> totalScore,
              interpretation |->
                  IF totalScore.p >= 85 THEN "very_natural"
                  ELSE IF totalScore.p >= 65 THEN "natural"
                  ELSE IF totalScore.p >= 45 THEN "somewhat_mechanical"
                  ELSE "mechanical" ] ]

(***************************************************************************)
(* Part 6.  analyzeVocabularyTiers (analyzers/vocabulary-tiers.ts).        *)
(***************************************************************************)
FORMAL_VERBS ==
    <<
      <<"a", "c", "h", "i", "e", "v", "e">>,
      <<"a", "c", "q", "u", "i", "r", "e">>,
      <<"d", "e", "m", "o", "n", "s", "t", "r", "a", "t", "e">>,
      <<"f", "a", "c", "i", "l", "i", "t", "a", "t", "e">>,
      <<"i", "m", "p", "l", "e", "m", "e", "n", "t">>,
      <<"u", "t", "i", "l", "i", "z", "e">>,
      <<"o", "b", "t", "a", "i", "n">>,
      <<"c", "o", "m", "m", "e", "n", "c", "e">>,
      <<"c", "o", "n", "c", "l", "u", "d", "e">>,
      <<"d", "e", "t", "e", "r", "m", "i", "n", "e">>,
      <<"e", "s", "t", "a", "b", "l", "i", "s", "h">>,
      <<"e", "x", "a", "m", "i", "n", "e">>,
      <<"i", "n", "d", "i", "c", "a", "t", "e">>,
      <<"i", "n", "v", "e", "s", "t", "i", "g", "a", "t", "e">>,
      <<"m", "a", "i", "n", "t", "a", "i", "n">>,
      <<"p", "e", "r", "f", "o", "r", "m">>,
      <<"p", "r", "o", "c", "e", "e", "d">>,
      <<"p", "r", "o", "v", "i", "d", "e">>,
      <<"r", "e", "q", "u", "i", "r", "e">>,
      <<"s", "e", "l", "e", "c", "t">>,
      <<"s", "u", "b", "s", "e", "q", "u", "e", "n", "t">>,
      <<"s", "u", "f", "f", "i", "c", "i", "e", "n", "t">>,
      <<"u", "n", "d", "e", "r", "t", "a", "k", "e">>,
      <<"e", "m", "p", "l", "o", "y">>, <<"e", "n", "a", "b", "l", "e">>
    >>

FORMAL_ADJECTIVES ==
    <<
      <<"o", "p", "t", "i", "m", "a", "l">>,
      <<"c", "o", "m", "p", "r", "e", "h", "e", "n", "s", "i", "v", "e">>,
      <<"s", "i", "g", "n", "i", "f", "i", "c", "a", "n", "t">>,
      <<"s", "u", "b", "s", "t", "a", "n", "t", "i", "a", "l">>,
      <<"c", "o", "n", "s", "i", "d", "e", "r", "a", "b", "l", "e">>,
      <<"e", "x", "t", "e", "n", "s", "i", "v", "e">>,
      <<"n", "u", "m", "e", "r", "o", "u", "s">>,
      <<"v", "a", "r", "i", "o", "u", "s">>,
      <<"p", "a", "r", "t", "i", "c", "u", "l", "a", "r">>,
      <<"s", "p", "e", "c", "i", "f", "i", "c">>,
      <<"a", "p", "p", "r", "o", "p", "r", "i", "a", "t", "e">>,
      <<"a", "d", "e", "q", "u", "a", "t", "e">>,
      <<"s", "u", "f", "f", "i", "c", "i", "e", "n", "t">>,
      <<"r", "e", "l", "e", "v", "a", "n", "t">>,
      <<"p", "o", "t", "e", "n", "t", "i", "a", "l">>
    >>

FORMAL_ADVERBS ==
    <<
      <<"s", "u", "b", "s", "e", "q", "u", "e", "n", "t", "l", "y">>,
      <<"a", "c", "c", "o", "r", "d", "i", "n", "g", "l", "y">>,
      <<"c", "o", "n", "s", "e", "q", "u", "e", "n", "t", "l", "y">>,
      <<"f", "u", "r", "t", "h", "e", "r", "m", "o", "r", "e">>,
      <<"m", "o", "r", "e", "o", "v", "e", "r">>,
      <<"n", "e", "v", "e", "r", "t", "h", "e", "l", "e", "s", "s">>,
      <<"n", "o", "n", "e", "t", "h", "e", "l", "e", "s", "s">>,
      <<"a", "d", "d", "i", "t", "i", "o", "n", "a", "l", "l", "y">>,
      <<"a", "l", "t", "e", "r", "n", "a", "t", "i", "v", "e", "l", "y">>,
      <<"e", "v", "i", "d", "e", "n", "t", "l", "y">>,
      <<"p", "r", "e", "s", "u", "m", "a", "b", "l", "y">>,
      <<"p", "o", "t", "e", "n", "t", "i", "a", "l", "l", "y">>
    >>

AI_SLOP ==
    <<
      <<"d", "e", "l", "v", "e">>,
      <<"l", "e", "v", "e", "r", "a", "g", "e">>,
      <<"u", "n", "l", "o", "c", "k">>,
      <<"s", "e", "a", "m", "l", "e", "s", "s">>,
      <<"r", "o", "b", "u", "s", "t">>,
      <<"c", "u", "t", "t", "i", "n", "g", "-", "e", "d", "g", "e">>,
      <<"g", "a", "m", "e", "-", "c", "h", "a", "n", "g", "e", "r">>,
      <<"r", "e", "v", "o", "l", "u", "t", "i", "o", "n", "i", "z", "e">>,
      <<"g", "r", "o", "u", "n", "d", "b", "r", "e", "a", "k", "i", "n", "g">>,
      <<"t", "r", "a", "n", "s", "f", "o", "r", "m">>,
      <<"e", "l", "e", "v", "a", "t", "e">>,
      <<"e", "m", "p", "o", "w", "e", "r">>,
      <<"s", "y", "n", "e", "r", "g", "y">>,
      <<"p", "a", "r", "a", "d", "i", "g", "m">>,
      <<"h", "o", "l", "i", "s", "t", "i", "c">>,
      <<"d", "y", "n", "a", "m", "i", "c">>,
      <<"i", "n", "n", "o", "v", "a", "t", "i", "v", "e">>,
      <<"s", "t", "r", "a", "t", "e", "g", "i", "c">>,
      <<"o", "p", "t", "i", "m", "i", "z", "e">>
    >>

\* the table of getCasualAlternatives
alternatives ==
    <<
      [word |-> <<"a", "c", "h", "i", "e", "v", "e">>,
        alternatives |-> <<"get", "reach", "hit", "manage">>],
      [word |-> <<"a", "c", "q", "u", "i", "r", "e">>,
        alternatives |-> <<"get", "buy", "pick up", "grab">>],
      [word |-> <<"d", "e", "m", "o", "n", "s", "t", "r", "a", "t", "e">>,
        alternatives |-> <<"show", "prove", "test">>],
      [word |-> <<"f", "a", "c", "i", "l", "i", "t", "a", "t", "e">>,
        alternatives |-> <<"help", "make easier", "enable">>],
      [word |-> <<"i", "m", "p", "l", "e", "m", "e", "n", "t">>,
        alternatives |-> <<"use", "put in place", "set up", "install">>],
      [word |-> <<"u", "t", "i", "l", "i", "z", "e">>,
        alternatives |-> <<"use">>],
      [word |-> <<"o", "b", "t", "a", "i", "n">>,
        alternatives |-> <<"get", "find", "buy">>],
      [word |-> <<"c", "o", "m", "m", "e", "n", "c", "e">>,
        alternatives |-> <<"start", "begin", "kick off">>],
      [word |-> <<"c", "o", "n", "c", "l", "u", "d", "e">>,
        alternatives |-> <<"finish", "end", "wrap up", "decide">>],
      [word |-> <<"d", "e", "t", "e", "r", "m", "i", "n", "e">>,
        alternatives |-> <<"find out", "figure out", "check", "test">>],
      [word |-> <<"e", "s", "t", "a", "b", "l", "i", "s", "h">>,
        alternatives |-> <<"set up", "create", "build", "prove">>],
      [word |-> <<"e", "x", "a", "m", "i", "n", "e">>,
        alternatives |-> <<"look at", "check", "test", "study">>],
      [word |-> <<"i", "n", "d", "i", "c", "a", "t", "e">>,
        alternatives |-> <<"show", "suggest", "point to">>],
      [word |-> <<"i", "n", "v", "e", "s", "t", "i", "g", "a", "t", "e">>,
        alternatives |-> <<"look into", "check out", "research">>],
      [word |-> <<"m", "a", "i", "n", "t", "a", "i", "n">>,
        alternatives |-> <<"keep", "hold", "run">>],
      [word |-> <<"p", "e", "r", "f", "o", "r", "m">>,
        alternatives |-> <<"do", "run", "carry out">>],
      [word |-> <<"p", "r", "o", "c", "e", "e", "d">>,
        alternatives |-> <<"go ahead", "continue", "move on">>],
      [word |-> <<"p", "r", "o", "v", "i", "d", "e">>,
        alternatives |-> <<"give", "offer", "supply">>],
      [word |-> <<"r", "e", "q", "u", "i", "r", "e">>,
        alternatives |-> <<"need", "must have", "call for">>],
      [word |-> <<"s", "e", "l", "e", "c", "t">>,
        alternatives |-> <<"pick", "choose">>],
      [word |-> <<"e", "m", "p", "l", "o", "y">>,
        alternatives |-> <<"use", "hire">>],
      [word |-> <<"e", "n", "a", "b", "l", "e">>,
        alternatives |-> <<"let", "allow", "make possible">>],
      [word |-> <<"o", "p", "t", "i", "m", "a", "l">>,
        alternatives |-> <<"best", "ideal", "perfect">>],
      [word |-> <<"c", "o", "m", "p", "r", "e", "h", "e", "n", "s", "i", "v", "e">>,
        alternatives |-> <<"complete", "full", "thorough">>],
      [word |-> <<"s", "i", "g", "n", "i", "f", "i", "c", "a", "n", "t">>,
        alternatives |-> <<"big", "major", "important">>],
      [word |-> <<"s", "u", "b", "s", "t", "a", "n", "t", "i", "a", "l">>,
        alternatives |-> <<"big", "large", "considerable">>],
      [word |-> <<"e", "x", "t", "e", "n", "s", "i", "v", "e">>,
        alternatives |-> <<"large", "wide", "thorough">>],
      [word |-> <<"n", "u", "m", "e", "r", "o", "u", "s">>,
        alternatives |-> <<"many", "lots of", "plenty of">>],
      [word |-> <<"v", "a", "r", "i", "o", "u", "s">>,
        alternatives |-> <<"different", "several", "a few">>],
      [word |-> <<"p", "a", "r", "t", "i", "c", "u", "l", "a", "r">>,
        alternatives |-> <<"specific", "certain", "this">>],
      [word |-> <<"a", "p", "p", "r", "o", "p", "r", "i", "a", "t", "e">>,
        alternatives |-> <<"right", "suitable", "proper">>],
      [word |-> <<"a", "d", "e", "q", "u", "a", "t", "e">>,
        alternatives |-> <<"enough", "good enough", "sufficient">>],
      [word |-> <<"r", "e", "l", "e", "v", "a", "n", "t">>,
        alternatives |-> <<"related", "connected", "important">>],
      [word |-> <<"d", "e", "l", "v", "e">>,
        alternatives |-> <<"explore", "look at", "examine", "dig into">>],
      [word |-> <<"l", "e", "v", "e", "r", "a", "g", "e">>,
        alternatives |-> <<"use", "apply", "take advantage of">>],
      [word |-> <<"u", "n", "l", "o", "c", "k">>,
        alternatives |-> <<"discover", "access", "enable", "reveal">>],
      [word |-> <<"s", "e", "a", "m", "l", "e", "s", "s">>,
        alternatives |-> <<"smooth", "easy", "works well">>],
      [word |-> <<"r", "o", "b", "u", "s", "t">>,
        alternatives |-> <<"strong", "reliable", "solid">>],
      [word |-> <<"c", "u", "t", "t", "i", "n", "g", "-", "e", "d", "g", "e">>,
        alternatives |-> <<"latest", "modern", "new">>],
      [word |-> <<"g", "a", "m", "e", "-", "c", "h", "a", "n", "g", "e", "r">>,
        alternatives |-> <<"big improvement", "major change">>],
      [word |-> <<"r", "e", "v", "o", "l", "u", "t", "i", "o", "n", "i", "z", "e">>,
        alternatives |-> <<"change completely", "transform">>],
      [word |-> <<"g", "r", "o", "u", "n", "d", "b", "r", "e", "a", "k", "i", "n", "g">>,
        alternatives |-> <<"new", "innovative", "first-of-its-kind">>],
      [word |-> <<"t", "r", "a", "n", "s", "f", "o", "r", "m">>,
        alternatives |-> <<"change", "improve", "reshape">>],
      [word |-> <<"e", "l", "e", "v", "a", "t", "e">>,
        alternatives |-> <<"improve", "enhance", "lift">>],
      [word |-> <<"e", "m", "p", "o", "w", "e", "r">>,
        alternatives |-> <<"enable", "allow", "help">>],
      [word |-> <<"o", "p", "t", "i", "m", "i", "z", "e">>,
        alternatives |-> <<"improve", "fine-tune", "tweak">>]
    >>

getCasualAlternatives(word) ==
    LET key == toLowerCase(word)
    IN  IF \E i \in 1..Len(alternatives) : alternatives[i].word = key
        THEN alternatives[CHOOSE i \in 1..Len(alternatives) : alternatives[i].word = key].alternatives
        ELSE <<"[rewrite in simpler terms]">>

\* the entries of one list: a word of the list with the number of tokens
\* that match it, for the words matched at least once
tierEntries(list, words, withForms, category, formality) ==
    LET matches(entry, w) ==
            \/ w = entry
            \/ withForms /\ ( \/ w = entry \o <<"s">>
                              \/ w = entry \o <<"e", "d">>
                              \/ w = entry \o <<"i", "n", "g">> )
        count(entry) == Cardinality({i \in 1..Len(words) : matches(entry, words[i])})
        found == SelectSeq(list, LAMBDA entry : count(entry) > 0)
    IN  [i \in 1..Len(found) |->
            [ word |-> found[i], count |-> count(found[i]), category |-> category,
              formality |-> formality,
              suggestedAlternatives |-> getCasualAlternatives(found[i]) ]]

\* Array.prototype.sort((a, b) => b.count - a.count): stable, by count descending
RECURSIVE insertByCount(_, _)
insertByCount(sorted, e) ==
    IF sorted = <<>> THEN <<e>>
    ELSE IF Head(sorted).count >= e.count
         THEN <<Head(sorted)>> \o insertByCount(Tail(sorted), e)
         ELSE <<e>> \o sorted

RECURSIVE sortByCount(_)
sortByCount(entries) ==
    IF entries = <<>> THEN <<>>
    ELSE insertByCount(sortByCount(SubSeq(entries, 1, Len(entries) - 1)), entries[Len(entries)])

RECURSIVE sumCounts(_)
sumCounts(entries) ==
    IF entries = <<>> THEN 0 ELSE Head(entries).count + sumCounts(Tail(entries))

analyzeVocabularyTiers(text) ==
    LET words == SelectSeq(split(toLowerCase(text), "\\W"), NonEmpty)
        formalVerbs == tierEntries(FORMAL_VERBS, words, TRUE, "verb", "formal")
        formalAdjectives == tierEntries(FORMAL_ADJECTIVES, words, FALSE, "adjective", "formal")
        formalAdverbs == tierEntries(FORMAL_ADVERBS, words, FALSE, "adverb", "formal")
        aiSlop == tierEntries(AI_SLOP, words, TRUE, "verb", "ai-slop")
        totalFormalWords ==
            sumCounts(formalVerbs) + sumCounts(formalAdjectives) + sumCounts(formalAdverbs)
        totalWords == Len(words)
        ratio == Div(IntNum(totalFormalWords), IntNum(totalWords))
        formalityScore ==
            IF IsFinite(ratio) THEN Round(Scale(ratio, 1000, 1), 0, 3000) ELSE ratio
        \* every comparison with NaN is false
        above(n) == IsFinite(formalityScore) /\ formalityScore.p > n
        recommendations ==
            (IF Len(aiSlop) > 0 THEN <<"CRITICAL">> ELSE <<>>)
            \o << IF above(20) THEN "HIGH FORMALITY"
                  ELSE IF above(10) THEN "MODERATE FORMALITY"
                  ELSE IF above(5) THEN "ACCEPTABLE"
                  ELSE "CASUAL VOICE" >>
            \o (IF Len(formalVerbs) > 0 THEN <<"Most used formal verbs">> ELSE <<>>)
    IN  [ formalVerbs |-> sortByCount(formalVerbs),
          formalAdjectives |-> sortByCount(formalAdjectives),
          formalAdverbs |-> sortByCount(formalAdverbs),
          aiSlop |-> sortByCount(aiSlop),
          totalFormalWords |-> totalFormalWords,
          formalityScore |-> formalityScore,
          recommendations |-> recommendations ]

(***************************************************************************)
(* Part 7.  analyzeFunctionWords (analyzers/function-words.ts) over the    *)
(* reference table (reference/function-words) and zScore (utils/zscore).   *)
(***************************************************************************)
FUNCTION_WORDS ==
    <<
      [word |-> <<"a">>, category |-> "article", tier |-> 2, britishMarker |-> FALSE],
      [word |-> <<"a", "n">>, category |-> "article", tier |-> 2, britishMarker |-> FALSE],
      [word |-> <<"t", "h", "e">>, category |-> "article", tier |-> 2, britishMarker |-> FALSE],
      [word |-> <<"t", "h", "i", "s">>, category |-> "determiner", tier |-> 2, britishMarker |-> FALSE],
      [word |-> <<"t", "h", "a", "t">>, category |-> "determiner", tier |-> 2, britishMarker |-> FALSE],
      [word |-> <<"t", "h", "e", "s", "e">>, category |-> "determiner", tier |-> 2, britishMarker |-> FALSE],
      [word |-> <<"t", "h", "o", "s", "e">>, category |-> "determiner", tier |-> 2, britishMarker |-> FALSE],
      [word |-> <<"s", "o", "m", "e">>, category |-> "determiner", tier |-> 2, britishMarker |-> FALSE],
      [word |-> <<"a", "n", "y">>, category |-> "determiner", tier |-> 2, britishMarker |-> FALSE],
      [word |-> <<"a", "l", "l">>, category |-> "determiner", tier |-> 2, britishMarker |-> FALSE],
      [word |-> <<"e", "v", "e", "r", "y">>, category |-> "determiner", tier |-> 2, britishMarker |-> FALSE],
      [word |-> <<"n", "o">>, category |-> "determiner", tier |-> 2, britishMarker |-> FALSE],
      [word |-> <<"a", "t">>, category |-> "preposition", tier |-> 2, britishMarker |-> FALSE],
      [word |-> <<"b", "y">>, category |-> "preposition", tier |-> 2, britishMarker |-> FALSE],
      [word |-> <<"f", "o", "r">>, category |-> "preposition", tier |-> 2, britishMarker |-> FALSE],
      [word |-> <<"f", "r", "o", "m">>, category |-> "preposition", tier |-> 2, britishMarker |-> FALSE],
      [word |-> <<"i", "n">>, category |-> "preposition", tier |-> 2, britishMarker |-> FALSE],
      [word |-> <<"i", "n", "t", "o">>, category |-> "preposition", tier |-> 2, britishMarker |-> FALSE],
      [word |-> <<"o", "f">>, category |-> "preposition", tier |-> 2, britishMarker |-> FALSE],
      [word |-> <<"o", "n">>, category |-> "preposition", tier |-> 2, britishMarker |-> FALSE],
      [word |-> <<"t", "o">>, category |-> "preposition", tier |-> 2, britishMarker |-> FALSE],
      [word |-> <<"u", "p", "o", "n">>, category |-> "preposition", tier |-> 1, britishMarker |-> FALSE],
      [word |-> <<"w", "i", "t", "h">>, category |-> "preposition", tier |-> 2, britishMarker |-> FALSE],
      [word |-> <<"w", "i", "t", "h", "o", "u", "t">>, category |-> "preposition", tier |-> 1, britishMarker |-> FALSE],
      [word |-> <<"t", "h", "r", "o", "u", "g", "h">>, category |-> "preposition", tier |-> 2, britishMarker |-> FALSE],
      [word |-> <<"b", "e", "t", "w", "e", "e", "n">>, category |-> "preposition", tier |-> 2, britishMarker |-> FALSE],
      [word |-> <<"w", "i", "t", "h", "i", "n">>, category |-> "preposition", tier |-> 1, britishMarker |-> FALSE],
      [word |-> <<"a", "c", "r", "o", "s", "s">>, category |-> "preposition", tier |-> 2, britishMarker |-> FALSE],
      [word |-> <<"a", "n", "d">>, category |-> "conjunction", tier |-> 2, britishMarker |-> FALSE],
      [word |-> <<"a", "s">>, category |-> "conjunction", tier |-> 2, britishMarker |-> FALSE],
      [word |-> <<"b", "u", "t">>, category |-> "conjunction", tier |-> 2, britishMarker |-> FALSE],
      [word |-> <<"i", "f">>, category |-> "conjunction", tier |-> 2, britishMarker |-> FALSE],
      [word |-> <<"o", "r">>, category |-> "conjunction", tier |-> 2, britishMarker |-> FALSE],
      [word |-> <<"s", "o">>, category |-> "conjunction", tier |-> 2, britishMarker |-> FALSE],
      [word |-> <<"t", "h", "a", "n">>, category |-> "conjunction", tier |-> 2, britishMarker |-> FALSE],
      [word |-> <<"t", "h", "a", "t">>, category |-> "conjunction", tier |-> 2, britishMarker |-> FALSE],
      [word |-> <<"t", "h", "o", "u", "g", "h">>, category |-> "conjunction", tier |-> 1, britishMarker |-> FALSE],
      [word |-> <<"w", "h", "e", "n">>, category |-> "conjunction", tier |-> 2, britishMarker |-> FALSE],
      [word |-> <<"w", "h", "i", "l", "e">>, category |-> "conjunction", tier |-> 2, britishMarker |-> FALSE],
      [word |-> <<"w", "h", "i", "l", "s", "t">>, category |-> "conjunction", tier |-> 1, britishMarker |-> TRUE],
      [word |-> <<"b", "e", "c", "a", "u", "s", "e">>, category |-> "conjunction", tier |-> 2, britishMarker |-> FALSE],
      [word |-> <<"a", "l", "t", "h", "o", "u", "g", "h">>, category |-> "conjunction", tier |-> 2, britishMarker |-> FALSE],
      [word |-> <<"c", "a", "n">>, category |-> "modal", tier |-> 3, britishMarker |-> FALSE],
      [word |-> <<"c", "o", "u", "l", "d">>, category |-> "modal", tier |-> 3, britishMarker |-> FALSE],
      [word |-> <<"m", "a", "y">>, category |-> "modal", tier |-> 1, britishMarker |-> FALSE],
      [word |-> <<"m", "i", "g", "h", "t">>, category |-> "modal", tier |-> 3, britishMarker |-> FALSE],
      [word |-> <<"m", "u", "s", "t">>, category |-> "modal", tier |-> 1, britishMarker |-> FALSE],
      [word |-> <<"s", "h", "a", "l", "l">>, category |-> "modal", tier |-> 1, britishMarker |-> FALSE],
      [word |-> <<"s", "h", "o", "u", "l", "d">>, category |-> "modal", tier |-> 3, britishMarker |-> FALSE],
      [word |-> <<"w", "i", "l", "l">>, category |-> "modal", tier |-> 3, britishMarker |-> FALSE],
      [word |-> <<"w", "o", "u", "l", "d">>, category |-> "modal", tier |-> 3, britishMarker |-> FALSE],
      [word |-> <<"b", "e">>, category |-> "auxiliary", tier |-> 3, britishMarker |-> FALSE],
      [word |-> <<"b", "e", "e", "n">>, category |-> "auxiliary", tier |-> 3, britishMarker |-> FALSE],
      [word |-> <<"b", "e", "i", "n", "g">>, category |-> "auxiliary", tier |-> 3, britishMarker |-> FALSE],
      [word |-> <<"d", "o">>, category |-> "auxiliary", tier |-> 3, britishMarker |-> FALSE],
      [word |-> <<"d", "o", "e", "s">>, category |-> "auxiliary", tier |-> 3, britishMarker |-> FALSE],
      [word |-> <<"h", "a", "d">>, category |-> "auxiliary", tier |-> 3, britishMarker |-> FALSE],
      [word |-> <<"h", "a", "s">>, category |-> "auxiliary", tier |-> 3, britishMarker |-> FALSE],
      [word |-> <<"h", "a", "v", "e">>, category |-> "auxiliary", tier |-> 3, britishMarker |-> FALSE],
      [word |-> <<"i", "s">>, category |-> "auxiliary", tier |-> 3, britishMarker |-> FALSE],
      [word |-> <<"w", "a", "s">>, category |-> "auxiliary", tier |-> 3, britishMarker |-> FALSE],
      [word |-> <<"w", "e", "r", "e">>, category |-> "auxiliary", tier |-> 3, britishMarker |-> FALSE],
      [word |-> <<"I">>, category |-> "pronoun", tier |-> 4, britishMarker |-> FALSE],
      [word |-> <<"w", "e">>, category |-> "pronoun", tier |-> 4, britishMarker |-> FALSE],
      [word |-> <<"y", "o", "u">>, category |-> "pronoun", tier |-> 4, britishMarker |-> FALSE],
      [word |-> <<"h", "e">>, category |-> "pronoun", tier |-> 4, britishMarker |-> FALSE],
      [word |-> <<"s", "h", "e">>, category |-> "pronoun", tier |-> 4, britishMarker |-> FALSE],
      [word |-> <<"i", "t">>, category |-> "pronoun", tier |-> 4, britishMarker |-> FALSE],
      [word |-> <<"t", "h", "e", "y">>, category |-> "pronoun", tier |-> 4, britishMarker |-> FALSE],
      [word |-> <<"o", "n", "e">>, category |-> "pronoun", tier |-> 4, britishMarker |-> FALSE],
      [word |-> <<"w", "h", "o">>, category |-> "pronoun", tier |-> 4, britishMarker |-> FALSE]
    >>

\* per-1000-word baselines, in tenths
GENERAL_ENGLISH_STATS ==
    <<
      [word |-> <<"t", "h", "e">>, mean |-> Rat(600, 10), stdDev |-> Rat(100, 10)],
      [word |-> <<"o", "f">>, mean |-> Rat(350, 10), stdDev |-> Rat(80, 10)],
      [word |-> <<"a", "n", "d">>, mean |-> Rat(280, 10), stdDev |-> Rat(70, 10)],
      [word |-> <<"a">>, mean |-> Rat(220, 10), stdDev |-> Rat(50, 10)],
      [word |-> <<"t", "o">>, mean |-> Rat(250, 10), stdDev |-> Rat(60, 10)],
      [word |-> <<"i", "n">>, mean |-> Rat(200, 10), stdDev |-> Rat(50, 10)],
      [word |-> <<"i", "s">>, mean |-> Rat(100, 10), stdDev |-> Rat(30, 10)],
      [word |-> <<"t", "h", "a", "t">>, mean |-> Rat(120, 10), stdDev |-> Rat(40, 10)],
      [word |-> <<"f", "o", "r">>, mean |-> Rat(120, 10), stdDev |-> Rat(40, 10)],
      [word |-> <<"i", "t">>, mean |-> Rat(110, 10), stdDev |-> Rat(30, 10)],
      [word |-> <<"w", "i", "t", "h">>, mean |-> Rat(90, 10), stdDev |-> Rat(30, 10)],
      [word |-> <<"a", "s">>, mean |-> Rat(80, 10), stdDev |-> Rat(30, 10)],
      [word |-> <<"w", "a", "s">>, mean |-> Rat(70, 10), stdDev |-> Rat(25, 10)],
      [word |-> <<"o", "n">>, mean |-> Rat(70, 10), stdDev |-> Rat(25, 10)],
      [word |-> <<"b", "e">>, mean |-> Rat(70, 10), stdDev |-> Rat(25, 10)],
      [word |-> <<"c", "a", "n">>, mean |-> Rat(30, 10), stdDev |-> Rat(15, 10)],
      [word |-> <<"w", "o", "u", "l", "d">>, mean |-> Rat(40, 10), stdDev |-> Rat(20, 10)],
      [word |-> <<"w", "i", "l", "l">>, mean |-> Rat(35, 10), stdDev |-> Rat(20, 10)],
      [word |-> <<"c", "o", "u", "l", "d">>, mean |-> Rat(20, 10), stdDev |-> Rat(10, 10)],
      [word |-> <<"s", "h", "o", "u", "l", "d">>, mean |-> Rat(15, 10), stdDev |-> Rat(10, 10)],
      [word |-> <<"m", "a", "y">>, mean |-> Rat(10, 10), stdDev |-> Rat(8, 10)],
      [word |-> <<"m", "i", "g", "h", "t">>, mean |-> Rat(8, 10), stdDev |-> Rat(6, 10)],
      [word |-> <<"m", "u", "s", "t">>, mean |-> Rat(9, 10), stdDev |-> Rat(7, 10)],
      [word |-> <<"s", "h", "a", "l", "l">>, mean |-> Rat(2, 10), stdDev |-> Rat(3, 10)],
      [word |-> <<"w", "h", "i", "l", "s", "t">>, mean |-> Rat(1, 10), stdDev |-> Rat(2, 10)],
      [word |-> <<"u", "p", "o", "n">>, mean |-> Rat(5, 10), stdDev |-> Rat(5, 10)],
      [word |-> <<"I">>, mean |-> Rat(50, 10), stdDev |-> Rat(50, 10)],
      [word |-> <<"w", "e">>, mean |-> Rat(30, 10), stdDev |-> Rat(30, 10)],
      [word |-> <<"y", "o", "u">>, mean |-> Rat(40, 10), stdDev |-> Rat(40, 10)],
      [word |-> <<"h", "e">>, mean |-> Rat(25, 10), stdDev |-> Rat(20, 10)],
      [word |-> <<"s", "h", "e">>, mean |-> Rat(15, 10), stdDev |-> Rat(15, 10)],
      [word |-> <<"t", "h", "e", "y">>, mean |-> Rat(20, 10), stdDev |-> Rat(15, 10)]
    >>

\* the keys of the lookup map: the table's words, lowercased
getFunctionWordMap == {toLowerCase(FUNCTION_WORDS[i].word) : i \in 1..Len(FUNCTION_WORDS)}

HasStats(word) == \E i \in 1..Len(GENERAL_ENGLISH_STATS) : GENERAL_ENGLISH_STATS[i].word = word
StatsOf(word) ==
    GENERAL_ENGLISH_STATS[CHOOSE i \in 1..Len(GENERAL_ENGLISH_STATS) :
                              GENERAL_ENGLISH_STATS[i].word = word]

\* mutant of zScore: the guard on a zero reference deviation dropped
zScore_NoGuard(value, refMean, refStdDev) ==
    Div(Sub(value, refMean), refStdDev)

zScore(value, refMean, refStdDev) ==
    IF Sign(refStdDev) = 0 THEN IntNum(0)
    ELSE Div(Sub(value, refMean), refStdDev)

interpretZScore(z) ==
    IF Lt(IntNum(2), z) THEN "Highly distinctive (much more than typical)"
    ELSE IF Lt(IntNum(1), z) THEN "Distinctive (more than typical)"
    ELSE IF Lt(Rat(1, 2), z) THEN "Slightly more than typical"
    ELSE IF Lt(Rat(-1, 2), z) THEN "Normal range"
    ELSE IF Lt(IntNum(-1), z) THEN "Slightly less than typical"
    ELSE IF Lt(IntNum(-2), z) THEN "Avoided (less than typical)"
    ELSE "Highly avoided (much less than typical)"

\* the Map of counts: a function from the function words found to their counts
extractFunctionWordFrequencies(text) ==
    LET words == SelectSeq(split(toLowerCase(text), "\\s"), NonEmpty)
        clean == [i \in 1..Len(words) |-> removeClass(words[i], "[^\\w'-]")]
        found == {clean[i] : i \in 1..Len(words)} \cap getFunctionWordMap
    IN  [w \in found |-> Cardinality({i \in 1..Len(words) : clean[i] = w})]

\* Array.prototype.sort, which is stable, on entries with the z-scores as
\* keys, descending (dir = -1) or ascending (dir = 1): each entry in turn
\* goes after the sorted entries that do not come after it
insertByZ(sorted, e, z, dir) ==
    LET stays(j) == IF dir < 0 THEN Leq(z[e.word].zScore, z[sorted[j].word].zScore)
                    ELSE Leq(z[sorted[j].word].zScore, z[e.word].zScore)
        p == Cardinality({j \in 1..Len(sorted) : stays(j)})
    IN  SubSeq(sorted, 1, p) \o <<e>> \o SubSeq(sorted, p + 1, Len(sorted))

RECURSIVE sortByZUpTo(_, _, _, _)
sortByZUpTo(entries, n, z, dir) ==
    IF n = 0 THEN <<>>
    ELSE Let(sortByZUpTo(entries, n - 1, z, dir),
             LAMBDA sorted : insertByZ(sorted, entries[n], z, dir))

sortByZ(entries, z, dir) == sortByZUpTo(entries, Len(entries), z, dir)

\* Array.prototype.sort((a, b) => b.frequency - a.frequency)
insertByFrequency(sorted, e) ==
    LET p == Cardinality({j \in 1..Len(sorted) : Leq(e.frequency, sorted[j].frequency)})
    IN  SubSeq(sorted, 1, p) \o <<e>> \o SubSeq(sorted, p + 1, Len(sorted))

RECURSIVE sortByFrequencyUpTo(_, _)
sortByFrequencyUpTo(entries, n) ==
    IF n = 0 THEN <<>>
    ELSE Let(sortByFrequencyUpTo(entries, n - 1),
             LAMBDA sorted : insertByFrequency(sorted, entries[n]))

sortByFrequency(entries) == sortByFrequencyUpTo(entries, Len(entries))

\* the sum of the values of a Map
RECURSIVE sumValues(_)
sumValues(map) ==
    IF DOMAIN map = {} THEN 0
    ELSE LET k == CHOOSE k \in DOMAIN map : TRUE
         IN  map[k] + sumValues([x \in DOMAIN map \ {k} |-> map[x]])

\* rawFrequencies.get(fw.word) || 0
CountOf(rawFrequencies, word) ==
    IF word \in DOMAIN rawFrequencies THEN rawFrequencies[word] ELSE 0

\* the loop over FUNCTION_WORDS that builds the frequencies per 1000 words
frequenciesOf(totalWords, rawFrequencies) ==
    [i \in 1..Len(FUNCTION_WORDS) |->
        LET fw == FUNCTION_WORDS[i]
            count == CountOf(rawFrequencies, fw.word)
        IN  [ word |-> fw.word, count |-> count,
              frequency |-> IF totalWords > 0 THEN Rat(count * 1000, totalWords)
                            ELSE IntNum(0),
              category |-> fw.category, tier |-> fw.tier,
              britishMarker |-> fw.britishMarker ]]

\* the words of the table that have reference statistics, and for each the
\* last entry of the table with that word, which is the one whose z-score
\* stays in the record
ScoredWords ==
    {FUNCTION_WORDS[i].word : i \in {j \in 1..Len(FUNCTION_WORDS) : HasStats(FUNCTION_WORDS[j].word)}}
LastEntry ==
    [w \in ScoredWords |->
        CHOOSE i \in 1..Len(FUNCTION_WORDS) :
            /\ FUNCTION_WORDS[i].word = w
            /\ \A j \in (i + 1)..Len(FUNCTION_WORDS) : FUNCTION_WORDS[j].word # w]

\* the loop over the frequencies that builds the record of z-scores
zScoresOf(frequencies) ==
    [w \in ScoredWords |->
        LET fw == frequencies[LastEntry[w]]
            z == zScore(fw.frequency, StatsOf(w).mean, StatsOf(w).stdDev)
        IN  [ value |-> fw.frequency, refMean |-> StatsOf(w).mean,
              refStdDev |-> StatsOf(w).stdDev, zScore |-> z,
              interpretation |-> interpretZScore(z) ]]

\* the loop over the z-scores that counts the words of each band
summaryOf(zScores) ==
    LET band(w) ==
            LET z == zScores[w].zScore
            IN  IF Lt(IntNum(2), z) THEN "highlyDistinctive"
                ELSE IF Lt(IntNum(1), z) THEN "distinctive"
                ELSE IF Lt(IntNum(-1), z) THEN "normal"
                ELSE IF Lt(IntNum(-2), z) THEN "avoided"
                ELSE "highlyAvoided"
        tally(b) == Cardinality({w \in DOMAIN zScores : band(w) = b})
    IN  [ highlyDistinctive |-> tally("highlyDistinctive"),
          distinctive |-> tally("distinctive"),
          normal |-> tally("normal"),
          avoided |-> tally("avoided"),
          highlyAvoided |-> tally("highlyAvoided") ]

distinctiveOf(frequencies, zScores) ==
    Let(SelectSeq(frequencies,
                  LAMBDA fw : fw.word \in DOMAIN zScores /\ Lt(IntNum(1), zScores[fw.word].zScore)),
        LAMBDA distinctive : sortByZ(distinctive, zScores, -1))

avoidedOf(frequencies, zScores) ==
    Let(SelectSeq(frequencies,
                  LAMBDA fw : fw.word \in DOMAIN zScores /\ Lt(zScores[fw.word].zScore, IntNum(-1))),
        LAMBDA avoided : sortByZ(avoided, zScores, 1))

britishMarkersOf(frequencies) ==
    Let(SelectSeq(frequencies, LAMBDA fw : fw.britishMarker /\ fw.count > 0),
        LAMBDA britishMarkers : sortByFrequency(britishMarkers))

analyzeFunctionWords(text) ==
    LET words == SelectSeq(split(toLowerCase(text), "\\s"), NonEmpty)
        totalWords == Len(words)
        report(rawFrequencies, frequencies, zScores) ==
            LET functionWordCount == sumValues(rawFrequencies)
            IN  [ totalWords |-> totalWords,
                  functionWordCount |-> functionWordCount,
                  functionWordPercentage |->
                      IF totalWords > 0 THEN Rat(functionWordCount * 100, totalWords)
                      ELSE IntNum(0),
                  frequencies |-> frequencies,
                  zScores |-> zScores,
                  distinctive |-> distinctiveOf(frequencies, zScores),
                  avoided |-> avoidedOf(frequencies, zScores),
                  britishMarkers |-> britishMarkersOf(frequencies),
                  summary |-> summaryOf(zScores) ]
    IN  Let(extractFunctionWordFrequencies(text), LAMBDA rawFrequencies :
          Let(frequenciesOf(totalWords, rawFrequencies), LAMBDA frequencies :
            Let(zScoresOf(frequencies), LAMBDA zScores :
              report(rawFrequencies, frequencies, zScores))))

(***************************************************************************)
(* Part 8.  analyzeVocabulary (analyzers/vocabulary.ts) with isValidWord   *)
(* and filterVocabulary (utils/cleaner) and frequencyMap, topN             *)
(* (utils/statistics).                                                     *)
(***************************************************************************)
CONTRACTIONS ==
    <<
      [contracted |-> <<"I", "'", "v", "e">>, expanded |-> "I have"],
      [contracted |-> <<"I", "'", "m">>, expanded |-> "I am"],
      [contracted |-> <<"I", "'", "d">>, expanded |-> "I would"],
      [contracted |-> <<"y", "o", "u", "'", "v", "e">>, expanded |-> "you have"],
      [contracted |-> <<"y", "o", "u", "'", "r", "e">>, expanded |-> "you are"],
      [contracted |-> <<"i", "t", "'", "s">>, expanded |-> "it is"],
      [contracted |-> <<"t", "h", "a", "t", "'", "s">>, expanded |-> "that is"],
      [contracted |-> <<"w", "o", "n", "'", "t">>, expanded |-> "will not"],
      [contracted |-> <<"c", "a", "n", "'", "t">>, expanded |-> "cannot"],
      [contracted |-> <<"d", "o", "n", "'", "t">>, expanded |-> "do not"],
      [contracted |-> <<"d", "o", "e", "s", "n", "'", "t">>, expanded |-> "does not"]
    >>

BRITISH_MARKERS ==
    <<
      <<"w", "h", "i", "l", "s", "t">>, <<"c", "o", "l", "o", "u", "r">>,
      <<"f", "a", "v", "o", "u", "r", "i", "t", "e">>,
      <<"o", "p", "t", "i", "m", "i", "s", "e">>,
      <<"a", "n", "a", "l", "y", "s", "e">>,
      <<"c", "e", "n", "t", "r", "e">>,
      <<"b", "e", "h", "a", "v", "i", "o", "u", "r">>,
      <<"h", "o", "n", "o", "u", "r">>, <<"f", "a", "v", "o", "u", "r">>,
      <<"l", "a", "b", "o", "u", "r">>,
      <<"r", "e", "c", "o", "g", "n", "i", "s", "e">>,
      <<"o", "r", "g", "a", "n", "i", "s", "e">>
    >>

AMERICAN_MARKERS ==
    <<
      <<"w", "h", "i", "l", "e">>, <<"c", "o", "l", "o", "r">>,
      <<"f", "a", "v", "o", "r", "i", "t", "e">>,
      <<"o", "p", "t", "i", "m", "i", "z", "e">>,
      <<"a", "n", "a", "l", "y", "z", "e">>,
      <<"c", "e", "n", "t", "e", "r">>,
      <<"b", "e", "h", "a", "v", "i", "o", "r">>,
      <<"h", "o", "n", "o", "r">>, <<"f", "a", "v", "o", "r">>,
      <<"l", "a", "b", "o", "r">>,
      <<"r", "e", "c", "o", "g", "n", "i", "z", "e">>,
      <<"o", "r", "g", "a", "n", "i", "z", "e">>
    >>

commonWords ==
    {
      <<"t", "h", "e">>, <<"a">>, <<"a", "n">>, <<"a", "n", "d">>,
      <<"o", "r">>, <<"b", "u", "t">>, <<"i", "n">>, <<"o", "n">>,
      <<"a", "t">>, <<"t", "o">>, <<"f", "o", "r">>, <<"o", "f">>,
      <<"w", "i", "t", "h">>, <<"b", "y">>, <<"f", "r", "o", "m">>,
      <<"a", "s">>, <<"i", "s">>, <<"w", "a", "s">>, <<"a", "r", "e">>,
      <<"b", "e">>, <<"h", "a", "v", "e">>, <<"h", "a", "s">>,
      <<"h", "a", "d">>, <<"d", "o">>, <<"d", "o", "e", "s">>,
      <<"d", "i", "d">>, <<"w", "i", "l", "l">>, <<"w", "o", "u", "l", "d">>,
      <<"c", "o", "u", "l", "d">>, <<"s", "h", "o", "u", "l", "d">>,
      <<"m", "a", "y">>, <<"m", "i", "g", "h", "t">>, <<"m", "u", "s", "t">>,
      <<"c", "a", "n">>, <<"t", "h", "i", "s">>, <<"t", "h", "a", "t">>,
      <<"t", "h", "e", "s", "e">>, <<"t", "h", "o", "s", "e">>, <<"i">>,
      <<"y", "o", "u">>, <<"h", "e">>, <<"s", "h", "e">>, <<"i", "t">>,
      <<"w", "e">>, <<"t", "h", "e", "y">>, <<"m", "y">>,
      <<"y", "o", "u", "r">>, <<"h", "i", "s">>, <<"h", "e", "r">>,
      <<"i", "t", "s">>, <<"o", "u", "r">>, <<"t", "h", "e", "i", "r">>
    }

\* the prefixes and the file extensions isValidWord rejects
ArtifactPrefixes ==
    { <<"h", "t", "t", "p">>,
      <<"w", "w", "w", ".">>,
      <<"g", "r", "a", "v", "a", "t", "a", "r">>,
      <<"c", "d", "n", ".">>,
      <<"s", "t", "a", "t", "i", "c", ".">> }
FileExtensions ==
    {
      <<"j", "p", "g">>, <<"j", "p", "e", "g">>, <<"p", "n", "g">>,
      <<"g", "i", "f">>, <<"s", "v", "g">>, <<"w", "e", "b", "p">>,
      <<"j", "s">>, <<"c", "s", "s">>, <<"h", "t", "m", "l">>,
      <<"p", "d", "f">>, <<"m", "p", "4">>, <<"w", "e", "b", "m">>
    }

StartsWith(word, prefix) ==
    /\ Len(prefix) <= Len(word)
    /\ SubSeq(word, 1, Len(prefix)) = prefix

AllIn(word, chars) == \A i \in 1..Len(word) : word[i] \in chars

\* the number a string of digits denotes
RECURSIVE DigitsValue(_)
DigitsValue(word) ==
    IF word = <<>> THEN 0
    ELSE 10 * DigitsValue(SubSeq(word, 1, Len(word) - 1))
         + (CHOOSE d \in 0..9 : DigitChars[d + 1] = word[Len(word)])

\* /^\d+x\d+$/i
IsDimension(word) ==
    \E i \in 2..(Len(word) - 1) :
        /\ toLowerCaseChar(word[i]) = "x"
        /\ AllIn(SubSeq(word, 1, i - 1), Digits)
        /\ AllIn(SubSeq(word, i + 1, Len(word)), Digits)

isValidWord(word) ==
    LET lower == toLowerCase(word)
    IN  /\ Len(trim(word)) > 0
        /\ ~\E p \in ArtifactPrefixes : StartsWith(lower, p)
        /\ ~\E e \in FileExtensions : lower = <<".">> \o e \/ lower = e
        /\ ~(Len(word) > 50 /\ AllIn(word, Letters \cup Digits \cup {"+", "/", "="}))
        /\ ~( /\ AllIn(word, Digits)
              /\ ~(Len(word) = 4 /\ DigitsValue(word) >= 1900 /\ DigitsValue(word) <= 2100) )
        /\ ~IsDimension(word)
        /\ \E i \in 1..Len(word) : word[i] \in Letters
        /\ ~(Len(word) = 1 /\ word \notin {<<"I">>, <<"a">>, <<"A">>})

filterVocabulary(words) == SelectSeq(words, isValidWord)

\* the Map of frequencyMap as the sequence of its entries in insertion order
RECURSIVE frequencyMap(_)
frequencyMap(items) ==
    IF items = <<>> THEN <<>>
    ELSE LET before == frequencyMap(SubSeq(items, 1, Len(items) - 1))
             item == items[Len(items)]
         IN  IF \E i \in 1..Len(before) : before[i].item = item
             THEN [i \in 1..Len(before) |->
                     IF before[i].item = item
                     THEN [item |-> item, count |-> before[i].count + 1]
                     ELSE before[i]]
             ELSE Append(before, [item |-> item, count |-> 1])

\* mutant of topN: the entries are not sorted
topN_Unsorted(map, n) ==
    LET total == sumCounts(map)
        kept == SubSeq(map, 1, IF n < Len(map) THEN n ELSE Len(map))
    IN  [i \in 1..Len(kept) |->
            [ item |-> kept[i].item, count |-> kept[i].count,
              percentage |-> IF total > 0 THEN Rat(kept[i].count * 100, total) ELSE IntNum(0) ]]

topN(map, n) ==
    LET total == sumCounts(map)
        sorted == sortByCount(map)
        kept == SubSeq(sorted, 1, IF n < Len(sorted) THEN n ELSE Len(sorted))
    IN  [i \in 1..Len(kept) |->
            [ item |-> kept[i].item, count |-> kept[i].count,
              percentage |-> IF total > 0 THEN Rat(kept[i].count * 100, total) ELSE IntNum(0) ]]

\* the markers of a list that occur in the text, with their match counts
markerCounts(text, list) ==
    LET found == SelectSeq(list, LAMBDA word : CountMatches(text, word) > 0)
    IN  [i \in 1..Len(found) |-> [word |-> found[i], count |-> CountMatches(text, found[i])]]

\* the pound and euro signs, written by their code points
PoundSign == "U+00A3"
EuroSign == "U+20AC"

analyzeVocabulary(text) ==
    LET rawWords == SelectSeq(split(text, "\\s"), NonEmpty)
        words == filterVocabulary(rawWords)
        totalWords == Len(words)
        lowerWords == [i \in 1..Len(words) |-> removeClass(toLowerCase(words[i]), "[^\\w'-]")]
        validLowerWords == SelectSeq(lowerWords, LAMBDA w : Len(w) > 0 /\ isValidWord(w))
        wordFreq == frequencyMap(validLowerWords)
        uniqueWords == Len(wordFreq)
        topWords == topN(wordFreq, 1000)
        wordFrequency ==
            [i \in 1..Len(topWords) |->
                [ word |-> topWords[i].item, count |-> topWords[i].count,
                  percentage |-> topWords[i].percentage ]]
        found == SelectSeq(CONTRACTIONS, LAMBDA c : CountMatches(text, c.contracted) > 0)
        contractionCounts ==
            [i \in 1..Len(found) |->
                [ contracted |-> found[i].contracted, expanded |-> found[i].expanded,
                  count |-> CountMatches(text, found[i].contracted) ]]
        totalContractions == sumCounts(contractionCounts)
        usageRate == IF totalWords > 0 THEN Rat(totalContractions * 100, totalWords)
                     ELSE IntNum(0)
        technical ==
            SelectSeq(topWords,
                      LAMBDA e : e.count >= 10 /\ Len(e.item) > 3 /\ e.item \notin commonWords)
        technicalTerms ==
            [i \in 1..(IF Len(technical) < 50 THEN Len(technical) ELSE 50) |->
                [word |-> technical[i].item, count |-> technical[i].count]]
    IN  [ totalWords |-> totalWords,
          uniqueWords |-> uniqueWords,
          vocabularyRichness |-> Div(IntNum(uniqueWords), IntNum(totalWords)),
          wordFrequency |-> wordFrequency,
          contractions |-> [usageRate |-> usageRate, examples |-> contractionCounts],
          britishMarkers |-> markerCounts(text, BRITISH_MARKERS),
          americanMarkers |-> markerCounts(text, AMERICAN_MARKERS),
          currencyPreference |->
            [ gbp |-> Count(text, LAMBDA c : c = PoundSign),
              eur |-> Count(text, LAMBDA c : c = EuroSign),
              usd |-> Count(text, LAMBDA c : c = "$") ],
          technicalTerms |-> technicalTerms ]

(***************************************************************************)
(* Part 9.  analyzeClusteringPatterns (analyzers/clustering.ts) with       *)
(* detectClusters, categorizedDistribution and entropy                     *)
(* (utils/advanced-statistics).                                            *)
(***************************************************************************)
\* x < y and x >= y on doubles where y may be Infinity
Less(x, y) ==
    IF IsFinite(x) /\ IsFinite(y) THEN Lt(x, y)
    ELSE x.k # "nan" /\ y.k # "nan" /\ x # y /\ (y = PosInfinity \/ x = NegInfinity)
AtLeast(x, y) ==
    IF IsFinite(x) /\ IsFinite(y) THEN Leq(y, x)
    ELSE x.k # "nan" /\ y.k # "nan" /\ (x = y \/ x = PosInfinity \/ y = NegInfinity)

\* the sign of q - c for a quotient q and a rational c
QuotCmpRat(q, c) == Sign(Sub(q.num, Mul(c, q.den))) * Sign(q.den)

RECURSIVE Power(_, _)
Power(b, e) == IF e = 0 THEN 1 ELSE b * Power(b, e - 1)

RECURSIVE SelfPowers(_)
SelfPowers(counts) ==
    IF counts = <<>> THEN 1 ELSE Power(Head(counts), Head(counts)) * SelfPowers(Tail(counts))

\* the entropy -sum(p * log2(p)) of the distribution with the given counts,
\* kept as the counts it is computed from
entropy(counts) ==
    IF SumSeq(counts) = 0 THEN IntNum(0)
    ELSE [k |-> "fin", entropyOf |-> counts]

\* entropy < a / b.  With n the total, n * entropy is log2(n^n / prod(c^c)),
\* so the comparison is n^(n*b) < 2^(a*n) * prod(c^c)^b on integers
EntropyBelow(counts, a, b) ==
    LET n == SumSeq(counts)
    IN  IF n = 0 THEN 0 < a
        ELSE Power(n, n * b) < Power(2, a * n) * Power(SelfPowers(counts), b)

Min(a, b) == IF a <= b THEN a ELSE b

RECURSIVE MinOf(_)
MinOf(values) ==
    IF Len(values) = 1 THEN values[1] ELSE Min(Head(values), MinOf(Tail(values)))
RECURSIVE MaxOf(_)
MaxOf(values) ==
    IF Len(values) = 1 THEN values[1] ELSE Max(Head(values), MaxOf(Tail(values)))

\* startIndex is the index into the JavaScript array (from 0)
createCluster(values, startIndex) ==
    [ startIndex |-> startIndex,
      endIndex |-> startIndex + Len(values) - 1,
      size |-> Len(values),
      values |-> values,
      mean |-> mean(values),
      min |-> MinOf(values),
      max |-> MaxOf(values) ]

\* the loop of detectClusters from position i (values[i] is the JavaScript
\* values[i - 1]) with the final cluster handled at the end
RECURSIVE detectLoop(_, _, _, _, _, _, _)
detectLoop(values, i, currentCluster, startIndex, clusters, threshold, minSize) ==
    IF i > Len(values)
    THEN IF Len(currentCluster) >= minSize
         THEN Append(clusters, createCluster(currentCluster, startIndex))
         ELSE clusters
    ELSE LET diff == IF values[i] >= values[i - 1] THEN values[i] - values[i - 1]
                     ELSE values[i - 1] - values[i]
         IN  IF diff <= threshold
             THEN detectLoop(values, i + 1, Append(currentCluster, values[i]), startIndex,
                             clusters, threshold, minSize)
             ELSE detectLoop(values, i + 1, <<values[i]>>, i - 1,
                             IF Len(currentCluster) >= minSize
                             THEN Append(clusters, createCluster(currentCluster, startIndex))
                             ELSE clusters,
                             threshold, minSize)

\* mutant of detectClusters: the run that ends at the last element is not
\* flushed
detectClusters_NoFinalFlush(values, threshold, minSize) ==
    IF Len(values) < minSize THEN <<>>
    ELSE SelectSeq(detectLoop(values, 2, <<values[1]>>, 0, <<>>, threshold, minSize),
                   LAMBDA c : c.endIndex # Len(values) - 1)

detectClusters(values, threshold, minSize) ==
    IF Len(values) < minSize THEN <<>>
    ELSE detectLoop(values, 2, <<values[1]>>, 0, <<>>, threshold, minSize)

\* items are [value, item] records, buckets [min, max, label] records
categorizedDistribution(items, buckets, maxExamples) ==
    LET total == Len(items)
    IN  [b \in 1..Len(buckets) |->
            LET matching ==
                    SelectSeq(items, LAMBDA it :
                        /\ AtLeast(IntNum(it.value), buckets[b].min)
                        /\ Less(IntNum(it.value), buckets[b].max))
                shown == SubSeq(matching, 1, Min(maxExamples, Len(matching)))
            IN  [ label |-> buckets[b].label,
                  min |-> buckets[b].min,
                  max |-> buckets[b].max,
                  count |-> Len(matching),
                  percentage |-> IF total > 0 THEN Rat(Len(matching) * 100, total)
                                 ELSE IntNum(0),
                  examples |-> [i \in 1..Len(shown) |-> shown[i].item] ]]

\* s.substring(0, n)
substring(s, n) == SubSeq(s, 1, Min(n, Len(s)))

LengthBuckets ==
    << [min |-> IntNum(0), max |-> IntNum(8), label |-> "Very Short (1-7)"],
       [min |-> IntNum(8), max |-> IntNum(15), label |-> "Short (8-14)"],
       [min |-> IntNum(15), max |-> IntNum(25), label |-> "Medium (15-24)"],
       [min |-> IntNum(25), max |-> IntNum(40), label |-> "Long (25-39)"],
       [min |-> IntNum(40), max |-> PosInfinity, label |-> "Very Long (40+)"] >>

generateClusteringGuidance(burstCoeff, clusterCount, totalSentences) ==
    IF QuotCmpRat(burstCoeff, Rat(-1, 10)) < 0 THEN "CRITICAL RISK"
    ELSE IF QuotCmpRat(burstCoeff, Rat(2, 10)) < 0 THEN "MODERATE RISK"
    ELSE "SAFE"

analyzeSentenceLengthClusters(sentences, lengths) ==
    LET clusters == detectClusters(lengths, 5, 2)
        avgClusterSize ==
            IF Len(clusters) > 0
            THEN Rat(SumSeq([i \in 1..Len(clusters) |-> clusters[i].size]), Len(clusters))
            ELSE IntNum(0)
        burstCoeff == burstiness(lengths)
        itemsWithLengths ==
            [i \in 1..Len(sentences) |->
                [value |-> lengths[i], item |-> substring(sentences[i], 80)]]
    IN  [ clusters |-> clusters,
          avgClusterSize |-> avgClusterSize,
          burstiness |-> burstCoeff,
          distribution |-> categorizedDistribution(itemsWithLengths, LengthBuckets, 3),
          guidance |-> generateClusteringGuidance(burstCoeff, Len(clusters), Len(lengths)) ]

\* /^(w1|w2|...)\s/i
StartsWithWord(sentence, openers) ==
    \E w \in openers :
        /\ Len(sentence) > Len(w)
        /\ toLowerCase(SubSeq(sentence, 1, Len(w))) = w
        /\ sentence[Len(w) + 1] \in WhiteSpace

classifyOpening(sentence) ==
    IF \E i \in 1..Len(sentence) : toLowerCase(sentence)[i] = "?" THEN "question"
    ELSE IF StartsWithWord(sentence, {<<"b", "u", "t">>, <<"a", "n", "d">>, <<"o", "r">>, <<"s", "o">>})
         THEN "conjunction"
    ELSE IF StartsWithWord(sentence, {<<"i">>, <<"w", "e">>, <<"y", "o", "u">>})
         THEN "personal"
    ELSE IF StartsWithWord(sentence, {<<"t", "h", "e">>, <<"a">>, <<"t", "h", "i", "s">>,
                                      <<"t", "h", "a", "t">>})
         THEN "article"
    ELSE IF Len(split(sentence, "\\s")) <= 4 THEN "fragment"
    ELSE "statement"

generateOpeningGuidance(counts) ==
    IF EntropyBelow(counts, 3, 2) THEN "LOW DIVERSITY"
    ELSE IF EntropyBelow(counts, 2, 1) THEN "MODERATE DIVERSITY"
    ELSE "HIGH DIVERSITY"

\* the opening types found, in the order of their first paragraph
RECURSIVE typesInOrder(_)
typesInOrder(types) ==
    IF types = <<>> THEN <<>>
    ELSE LET before == typesInOrder(SubSeq(types, 1, Len(types) - 1))
             type == types[Len(types)]
         IN  IF \E i \in 1..Len(before) : before[i] = type THEN before
             ELSE Append(before, type)

analyzeParagraphOpenings(paragraphs) ==
    LET firstSentences ==
            SelectSeq([i \in 1..Len(paragraphs) |-> trim(firstField(paragraphs[i], "[.!?]"))],
                      NonEmpty)
        types == [i \in 1..Len(firstSentences) |-> classifyOpening(firstSentences[i])]
        keys == typesInOrder(types)
        ofType(t) == SelectSeq(firstSentences, LAMBDA s : classifyOpening(s) = t)
        counts == [i \in 1..Len(keys) |-> Len(ofType(keys[i]))]
    IN  [ types |-> [t \in {keys[i] : i \in 1..Len(keys)} |-> Len(ofType(t))],
          entropy |-> entropy(counts),
          examples |-> [t \in {keys[i] : i \in 1..Len(keys)} |->
                          [i \in 1..Min(5, Len(ofType(t))) |-> substring(ofType(t)[i], 100)]],
          guidance |-> generateOpeningGuidance(counts) ]

generateVariationGuidance(coefficientOfVariation, stdDev) ==
    IF Lt(coefficientOfVariation, Rat(1, 2)) THEN "LOW VARIATION"
    ELSE IF Lt(coefficientOfVariation, Rat(8, 10)) THEN "MODERATE VARIATION"
    ELSE "HIGH VARIATION"

analyzeLengthVariation(lengths) ==
    LET avg == mean(lengths)
        stdDev == standardDeviation(lengths)
        coefficientOfVariation == IF Sign(avg) > 0 THEN DivRat(stdDev, avg) ELSE IntNum(0)
    IN  [ mean |-> avg, stdDev |-> stdDev,
          coefficientOfVariation |-> coefficientOfVariation,
          guidance |-> generateVariationGuidance(coefficientOfVariation, stdDev) ]

analyzeClusteringPatterns(text) ==
    LET sentences == sentencesOf(text)
        paragraphs == paragraphsOf(text)
        sentenceLengths == [i \in 1..Len(sentences) |-> Len(split(sentences[i], "\\s"))]
    IN  [ sentenceLengthClusters |-> analyzeSentenceLengthClusters(sentences, sentenceLengths),
          paragraphOpenings |-> analyzeParagraphOpenings(paragraphs),
          lengthVariation |-> analyzeLengthVariation(sentenceLengths) ]

(***************************************************************************)
(* Part 10.  Reports as JavaScript values and their JSON files.            *)
(* analyzeCorpus writes JSON.stringify(report) and the generators read the *)
(* file back with JSON.parse.  A value is a tree tagged with its type; the *)
(* text of a file is kept as the tree of its literals.                     *)
(***************************************************************************)
JNumber(x) == [t |-> "number", v |-> x]
JInt(n) == JNumber(IntNum(n))
JString(s) == [t |-> "string", v |-> s]
JBoolean(b) == [t |-> "boolean", v |-> b]
JArray(items) == [t |-> "array", v |-> items]
JObject(fields) == [t |-> "object", v |-> fields]
JNull == [t |-> "null", v |-> Null]

\* Number.isFinite of a number in any of the forms the analyzers produce
NumberIsFinite(x) == IF "k" \in DOMAIN x THEN x.k = "fin" ELSE TRUE

\* JSON.stringify: a number that is not finite is written as null
RECURSIVE JSONstringify(_)
JSONstringify(value) ==
    IF value.t = "number"
    THEN IF NumberIsFinite(value.v) THEN [lit |-> "number", v |-> value.v]
         ELSE [lit |-> "null", v |-> Null]
    ELSE IF value.t = "array"
    THEN [lit |-> "array", v |-> [i \in DOMAIN value.v |-> JSONstringify(value.v[i])]]
    ELSE IF value.t = "object"
    THEN [lit |-> "object", v |-> [key \in DOMAIN value.v |-> JSONstringify(value.v[key])]]
    ELSE [lit |-> value.t, v |-> value.v]

RECURSIVE JSONparse(_)
JSONparse(text) ==
    IF text.lit = "array"
    THEN JArray([i \in DOMAIN text.v |-> JSONparse(text.v[i])])
    ELSE IF text.lit = "object"
    THEN JObject([key \in DOMAIN text.v |-> JSONparse(text.v[key])])
    ELSE [t |-> text.lit, v |-> text.v]

\* every number of a value is finite
RECURSIVE AllNumbersFinite(_)
AllNumbersFinite(value) ==
    IF value.t = "number" THEN NumberIsFinite(value.v)
    ELSE IF value.t \in {"array", "object"}
    THEN \A key \in DOMAIN value.v : AllNumbersFinite(value.v[key])
    ELSE TRUE

JStrings(items) == JArray([i \in 1..Len(items) |-> JString(items[i])])
JInts(items) == JArray([i \in 1..Len(items) |-> JInt(items[i])])

AntiMechanicalValue(r) ==
    JObject([
      sentenceLengthVariation |-> JObject([
          mean |-> JNumber(r.sentenceLengthVariation.mean),
          stdDev |-> JNumber(r.sentenceLengthVariation.stdDev),
          coefficientOfVariation |-> JNumber(r.sentenceLengthVariation.coefficientOfVariation),
          distribution |-> JObject([c \in DOMAIN r.sentenceLengthVariation.distribution |->
                                       JInt(r.sentenceLengthVariation.distribution[c])]),
          hasNaturalVariation |-> JBoolean(r.sentenceLengthVariation.hasNaturalVariation)]),
      paragraphAsymmetry |-> JObject([
          meanSentences |-> JNumber(r.paragraphAsymmetry.meanSentences),
          stdDev |-> JNumber(r.paragraphAsymmetry.stdDev),
          symmetryScore |-> JNumber(r.paragraphAsymmetry.symmetryScore),
          singleSentenceParagraphs |-> JInt(r.paragraphAsymmetry.singleSentenceParagraphs),
          longParagraphs |-> JInt(r.paragraphAsymmetry.longParagraphs)]),
      firstPersonDistribution |-> JObject([
          totalCount |-> JInt(r.firstPersonDistribution.totalCount),
          sentenceStartCount |-> JInt(r.firstPersonDistribution.sentenceStartCount),
          sentenceStartRatio |-> JNumber(r.firstPersonDistribution.sentenceStartRatio),
          consecutiveIStart |-> JInt(r.firstPersonDistribution.consecutiveIStart),
          isBalanced |-> JBoolean(r.firstPersonDistribution.isBalanced)]),
      repetitiveStarts |-> JObject([
          maxConsecutiveSameStart |-> JInt(r.repetitiveStarts.maxConsecutiveSameStart),
          problematicPatterns |-> JStrings(r.repetitiveStarts.problematicPatterns),
          hasRepetitionProblem |-> JBoolean(r.repetitiveStarts.hasRepetitionProblem)]),
      naturalness |-> JObject([
          sentenceVariationScore |-> JNumber(r.naturalness.sentenceVariationScore),
          paragraphVariationScore |-> JNumber(r.naturalness.paragraphVariationScore),
          firstPersonScore |-> JNumber(r.naturalness.firstPersonScore),
          repetitionScore |-> JNumber(r.naturalness.repetitionScore),
          totalScore |-> JNumber(r.naturalness.totalScore),
          interpretation |-> JString(r.naturalness.interpretation)]) ])

TierValue(e) ==
    JObject([ word |-> JString(e.word), count |-> JInt(e.count),
              category |-> JString(e.category), formality |-> JString(e.formality),
              suggestedAlternatives |-> JStrings(e.suggestedAlternatives) ])
TierValues(entries) == JArray([i \in 1..Len(entries) |-> TierValue(entries[i])])

VocabularyTiersValue(r) ==
    JObject([ formalVerbs |-> TierValues(r.formalVerbs),
              formalAdjectives |-> TierValues(r.formalAdjectives),
              formalAdverbs |-> TierValues(r.formalAdverbs),
              aiSlop |-> TierValues(r.aiSlop),
              totalFormalWords |-> JInt(r.totalFormalWords),
              formalityScore |-> JNumber(r.formalityScore),
              recommendations |-> JStrings(r.recommendations) ])

WordCountValues(entries) ==
    JArray([i \in 1..Len(entries) |->
               JObject([word |-> JString(entries[i].word), count |-> JInt(entries[i].count)])])

VocabularyValue(r) ==
    JObject([
      totalWords |-> JInt(r.totalWords),
      uniqueWords |-> JInt(r.uniqueWords),
      vocabularyRichness |-> JNumber(r.vocabularyRichness),
      wordFrequency |->
          JArray([i \in 1..Len(r.wordFrequency) |->
                     JObject([ word |-> JString(r.wordFrequency[i].word),
                               count |-> JInt(r.wordFrequency[i].count),
                               percentage |-> JNumber(r.wordFrequency[i].percentage) ])]),
      contractions |-> JObject([
          usageRate |-> JNumber(r.contractions.usageRate),
          examples |->
              JArray([i \in 1..Len(r.contractions.examples) |->
                         JObject([ contracted |-> JString(r.contractions.examples[i].contracted),
                                   expanded |-> JString(r.contractions.examples[i].expanded),
                                   count |-> JInt(r.contractions.examples[i].count) ])])]),
      britishMarkers |-> WordCountValues(r.britishMarkers),
      americanMarkers |-> WordCountValues(r.americanMarkers),
      currencyPreference |-> JObject([ gbp |-> JInt(r.currencyPreference.gbp),
                                       eur |-> JInt(r.currencyPreference.eur),
                                       usd |-> JInt(r.currencyPreference.usd) ]),
      technicalTerms |-> WordCountValues(r.technicalTerms) ])

FrequencyValues(entries) ==
    JArray([i \in 1..Len(entries) |->
               JObject([ word |-> JString(entries[i].word),
                         count |-> JInt(entries[i].count),
                         frequency |-> JNumber(entries[i].frequency),
                         category |-> JString(entries[i].category),
                         tier |-> JInt(entries[i].tier),
                         britishMarker |-> JBoolean(entries[i].britishMarker) ])])

FunctionWordsValue(r) ==
    JObject([
      totalWords |-> JInt(r.totalWords),
      functionWordCount |-> JInt(r.functionWordCount),
      functionWordPercentage |-> JNumber(r.functionWordPercentage),
      frequencies |-> FrequencyValues(r.frequencies),
      zScores |->
          JObject([w \in DOMAIN r.zScores |->
                      JObject([ value |-> JNumber(r.zScores[w].value),
                                refMean |-> JNumber(r.zScores[w].refMean),
                                refStdDev |-> JNumber(r.zScores[w].refStdDev),
                                zScore |-> JNumber(r.zScores[w].zScore),
                                interpretation |-> JString(r.zScores[w].interpretation) ])]),
      distinctive |-> FrequencyValues(r.distinctive),
      avoided |-> FrequencyValues(r.avoided),
      britishMarkers |-> FrequencyValues(r.britishMarkers),
      summary |-> JObject([k \in DOMAIN r.summary |-> JInt(r.summary[k])]) ])

ClusteringValue(r) ==
    JObject([
      sentenceLengthClusters |-> JObject([
          clusters |->
              JArray([i \in 1..Len(r.sentenceLengthClusters.clusters) |->
                  LET c == r.sentenceLengthClusters.clusters[i]
                  IN  JObject([ startIndex |-> JInt(c.startIndex), endIndex |-> JInt(c.endIndex),
                                size |-> JInt(c.size), values |-> JInts(c.values),
                                mean |-> JNumber(c.mean), min |-> JInt(c.min),
                                max |-> JInt(c.max) ])]),
          avgClusterSize |-> JNumber(r.sentenceLengthClusters.avgClusterSize),
          burstiness |-> JNumber(r.sentenceLengthClusters.burstiness),
          distribution |->
              JArray([i \in 1..Len(r.sentenceLengthClusters.distribution) |->
                  LET b == r.sentenceLengthClusters.distribution[i]
                  IN  JObject([ label |-> JString(b.label), min |-> JNumber(b.min),
                                max |-> JNumber(b.max), count |-> JInt(b.count),
                                percentage |-> JNumber(b.percentage),
                                examples |-> JStrings(b.examples) ])]),
          guidance |-> JString(r.sentenceLengthClusters.guidance)]),
      paragraphOpenings |-> JObject([
          types |-> JObject([t \in DOMAIN r.paragraphOpenings.types |->
                                JInt(r.paragraphOpenings.types[t])]),
          entropy |-> JNumber(r.paragraphOpenings.entropy),
          examples |-> JObject([t \in DOMAIN r.paragraphOpenings.examples |->
                                   JStrings(r.paragraphOpenings.examples[t])]),
          guidance |-> JString(r.paragraphOpenings.guidance)]),
      lengthVariation |-> JObject([
          mean |-> JNumber(r.lengthVariation.mean),
          stdDev |-> JNumber(r.lengthVariation.stdDev),
          coefficientOfVariation |-> JNumber(r.lengthVariation.coefficientOfVariation),
          guidance |-> JString(r.lengthVariation.guidance)]) ])

(***************************************************************************)
(* SpecText: a text is drawn; analyzeCorpus runs one analyzer on it and    *)
(* writes the report file.                                                 *)
(***************************************************************************)
InitText ==
    /\ FsIdle
    /\ input \in Texts
    /\ output = NotRun
    /\ pc = "ready"

\* what the step of analyzeCorpus for one analyzer leaves: the report the
\* analyzer returned, the report as a JavaScript value, and the
\* JSON.stringify of it that is written to the report file
Written(fn, report, value) ==
    [fn |-> fn, value |-> report, object |-> value, written |-> JSONstringify(value)]

AnalyzeVocabulary ==
    /\ pc = "ready"
    /\ output' = Written("analyzeVocabulary", analyzeVocabulary(input),
                         VocabularyValue(analyzeVocabulary(input)))
    /\ pc' = "done"
    /\ UNCHANGED <<fsVars, input>>

AnalyzeVocabularyTiers ==
    /\ pc = "ready"
    /\ output' = Written("analyzeVocabularyTiers", analyzeVocabularyTiers(input),
                         VocabularyTiersValue(analyzeVocabularyTiers(input)))
    /\ pc' = "done"
    /\ UNCHANGED <<fsVars, input>>

AnalyzeFunctionWords ==
    /\ pc = "ready"
    /\ output' = Let(analyzeFunctionWords(input), LAMBDA report :
                     Written("analyzeFunctionWords", report, FunctionWordsValue(report)))
    /\ pc' = "done"
    /\ UNCHANGED <<fsVars, input>>

AnalyzeAntiMechanical ==
    /\ pc = "ready"
    /\ output' = Written("analyzeAntiMechanical", analyzeAntiMechanical(input),
                         AntiMechanicalValue(analyzeAntiMechanical(input)))
    /\ pc' = "done"
    /\ UNCHANGED <<fsVars, input>>

AnalyzeClusteringPatterns ==
    /\ pc = "ready"
    /\ output' = Written("analyzeClusteringPatterns", analyzeClusteringPatterns(input),
                         ClusteringValue(analyzeClusteringPatterns(input)))
    /\ pc' = "done"
    /\ UNCHANGED <<fsVars, input>>

NextText ==
    \/ AnalyzeVocabulary
    \/ AnalyzeVocabularyTiers
    \/ AnalyzeFunctionWords
    \/ AnalyzeAntiMechanical
    \/ AnalyzeClusteringPatterns

SpecText == InitText /\ [][NextText]_vars

InRange(x, lo, hi) == IsFinite(x) /\ Leq(IntNum(lo), x) /\ Leq(x, IntNum(hi))

\* C3: for every input text, analyzeAntiMechanical reports each of the four
\* sub-scores within 0..25 and totalScore within 0..100.
C3_ScoresInRange ==
    Ran("analyzeAntiMechanical")
        => /\ InRange(output.value.naturalness.sentenceVariationScore, 0, 25)
           /\ InRange(output.value.naturalness.paragraphVariationScore, 0, 25)
           /\ InRange(output.value.naturalness.firstPersonScore, 0, 25)
           /\ InRange(output.value.naturalness.repetitionScore, 0, 25)
           /\ InRange(output.value.naturalness.totalScore, 0, 100)

\* C4: every analyzer run by analyze_corpus, given empty or whitespace-only
\* text, returns a report whose every numeric field is finite (never NaN or
\* Infinity).
C4_EmptyTextGivesFiniteNumbers ==
    (pc = "done" /\ IsBlank(input)) => AllNumbersFinite(output.object)

\* C5: for every report an analyzer returns, serializing it to JSON and
\* parsing it back yields a structure equal to the original report.
C5_JsonRoundTrip ==
    pc = "done" => JSONparse(output.written) = output.object

\* the word occurs in the text: a case-insensitive match on word boundaries
Occurs(word, text) == CountMatches(text, word) > 0

\* C6: for every text and every word on the AI-slop list, hyphenated entries
\* included, a word that occurs in the text is reported in aiSlop with a
\* count of at least 1 and a replacement suggestion.
C6_SlopWordsReported ==
    Ran("analyzeVocabularyTiers")
        => \A s \in 1..Len(AI_SLOP) :
              Occurs(AI_SLOP[s], input)
                  => \E i \in 1..Len(output.value.aiSlop) :
                        /\ output.value.aiSlop[i].word = AI_SLOP[s]
                        /\ output.value.aiSlop[i].count >= 1
                        /\ Len(output.value.aiSlop[i].suggestedAlternatives) >= 1

\* a token with the punctuation around it stripped
RECURSIVE StripPunctuation(_)
StripPunctuation(token) ==
    IF token = <<>> THEN token
    ELSE IF Head(token) \notin WordChars THEN StripPunctuation(Tail(token))
    ELSE IF token[Len(token)] \notin WordChars
         THEN StripPunctuation(SubSeq(token, 1, Len(token) - 1))
    ELSE token

\* the number of whitespace-separated tokens of the text that equal the word
\* ignoring letter case
TokensEqual(text, word) ==
    LET tokens == SelectSeq(split(text, "\\s"), NonEmpty)
    IN  Cardinality({i \in 1..Len(tokens) :
                        toLowerCase(StripPunctuation(tokens[i])) = toLowerCase(word)})

\* C7: for every text and every word w of the function-word table, the count
\* analyzeFunctionWords reports for w is the number of whitespace-separated
\* tokens that equal w ignoring letter case.
C7_CountsAreTokenCounts ==
    Ran("analyzeFunctionWords")
        => \A i \in 1..Len(output.value.frequencies) :
              output.value.frequencies[i].count
                  = TokensEqual(input, output.value.frequencies[i].word)

\* the band the specification states for a z-score
StatedBand(z) ==
    IF Lt(IntNum(2), z) THEN "highlyDistinctive"
    ELSE IF Lt(IntNum(1), z) THEN "distinctive"
    ELSE IF Leq(IntNum(-1), z) THEN "normal"
    ELSE IF Leq(IntNum(-2), z) THEN "avoided"
    ELSE "highlyAvoided"

\* the z-score of the frequency mean + n/100 * stdDev of a reference entry
ZAt(stats, n) ==
    zScore(Add(stats.mean, Mul(Rat(n, 100), stats.stdDev)), stats.mean, stats.stdDev)

\* C8: every function word with a z-score is classified by the stated bands,
\* and the summary counts and the distinctive/avoided lists follow them:
\* mean + 2.01 stdDev is highly distinctive, mean + 1.99 stdDev distinctive,
\* and a word counts as avoided only when its z-score is below -1.
C8_BandsFollowCutoffs ==
    Ran("analyzeFunctionWords")
        => LET r == output.value
               stated(b) == Cardinality({w \in DOMAIN r.zScores :
                                            StatedBand(r.zScores[w].zScore) = b})
           IN  /\ \A b \in DOMAIN r.summary : r.summary[b] = stated(b)
               /\ \A i \in 1..Len(r.distinctive) :
                     StatedBand(r.zScores[r.distinctive[i].word].zScore)
                         \in {"distinctive", "highlyDistinctive"}
               /\ \A i \in 1..Len(r.avoided) :
                     StatedBand(r.zScores[r.avoided[i].word].zScore)
                         \in {"avoided", "highlyAvoided"}
               /\ \A i \in 1..Len(GENERAL_ENGLISH_STATS) :
                     /\ interpretZScore(ZAt(GENERAL_ENGLISH_STATS[i], 201))
                            = "Highly distinctive (much more than typical)"
                     /\ interpretZScore(ZAt(GENERAL_ENGLISH_STATS[i], 199))
                            = "Distinctive (more than typical)"

(***************************************************************************)
(* SpecStats, continued: the other statistics primitives applied to the    *)
(* numeric sequence drawn by InitStats.                                    *)
(***************************************************************************)
Thresholds == {0, 1, 2}      \* the threshold arguments of detectClusters
MinSizes == {1, 2, 3}        \* its minSize arguments

DetectClusters ==
    /\ pc = "ready"
    /\ \E threshold \in Thresholds, minSize \in MinSizes :
          output' = [fn |-> "detectClusters", threshold |-> threshold, minSize |-> minSize,
                     value |-> detectClusters(input, threshold, minSize)]
    /\ pc' = "done"
    /\ UNCHANGED <<fsVars, input>>

Abs(n) == IF n >= 0 THEN n ELSE -n

\* positions a..b (from 1) of v are a maximal run of values that each differ
\* from their predecessor by at most t
Linked(v, i, t) == Abs(v[i] - v[i - 1]) <= t
MaximalRun(v, a, b, t) ==
    /\ a <= b
    /\ \A i \in (a + 1)..b : Linked(v, i, t)
    /\ a = 1 \/ ~Linked(v, a, t)
    /\ b = Len(v) \/ ~Linked(v, b + 1, t)

ExpectedRuns(v, t, minSize) ==
    {r \in (1..Len(v)) \X (1..Len(v)) :
        MaximalRun(v, r[1], r[2], t) /\ r[2] - r[1] + 1 >= minSize}

\* C11: detectClusters returns, in increasing position order and without
\* overlap, exactly the maximal runs of consecutive positions in which each
\* value differs from its predecessor by at most threshold and whose length
\* is at least minSize, the run ending at the last element included, and the
\* startIndex, endIndex, size, values, min and max of each cluster describe
\* that run.
C11_ClustersAreMaximalRuns ==
    Ran("detectClusters")
        => LET cs == output.value
               run(i) == <<cs[i].startIndex + 1, cs[i].endIndex + 1>>
           IN  /\ {run(i) : i \in 1..Len(cs)}
                      = ExpectedRuns(input, output.threshold, output.minSize)
               /\ \A i \in 1..(Len(cs) - 1) : cs[i].endIndex < cs[i + 1].startIndex
               /\ \A i \in 1..Len(cs) :
                     /\ cs[i].size = cs[i].endIndex - cs[i].startIndex + 1
                     /\ cs[i].values = SubSeq(input, run(i)[1], run(i)[2])
                     /\ \A k \in 1..cs[i].size : cs[i].min <= cs[i].values[k]
                                                 /\ cs[i].values[k] <= cs[i].max
                     /\ \E k \in 1..cs[i].size : cs[i].min = cs[i].values[k]
                     /\ \E k \in 1..cs[i].size : cs[i].max = cs[i].values[k]

\* C11 witness: detectClusters has split a sequence into two clusters of at
\* least two values, the second ending at the last element.
C11_Witness ==
    /\ Ran("detectClusters")
    /\ Len(output.value) = 2
    /\ output.value[2].endIndex = Len(input) - 1
    /\ output.value[1].startIndex = 0
    /\ output.value[1].size + output.value[2].size = Len(input)
    /\ output.minSize = 2

\* C12: in every cluster emitted by detectClusters, any two values of the
\* cluster differ by at most the threshold (max - min <= threshold).
C12_ClusterSpreadWithinThreshold ==
    Ran("detectClusters")
        => \A i \in 1..Len(output.value) :
              output.value[i].max - output.value[i].min <= output.threshold

\* distribution of utils/statistics; ranges are [min, max, label] records.
\* Its mutant: the upper end of a range is included.
distribution_InclusiveMax(values, ranges) ==
    LET total == Len(values)
    IN  [b \in 1..Len(ranges) |->
            LET count == Cardinality({i \in 1..Len(values) :
                             /\ AtLeast(IntNum(values[i]), ranges[b].min)
                             /\ AtLeast(ranges[b].max, IntNum(values[i]))})
            IN  [ range |-> ranges[b].label, count |-> count,
                  percentage |-> IF total > 0 THEN Rat(count * 100, total) ELSE IntNum(0) ]]

distribution(values, ranges) ==
    LET total == Len(values)
    IN  [b \in 1..Len(ranges) |->
            LET count == Cardinality({i \in 1..Len(values) :
                             /\ AtLeast(IntNum(values[i]), ranges[b].min)
                             /\ Less(IntNum(values[i]), ranges[b].max)})
            IN  [ range |-> ranges[b].label, count |-> count,
                  percentage |-> IF total > 0 THEN Rat(count * 100, total) ELSE IntNum(0) ]]

Bucket(min, max, label) == [min |-> min, max |-> max, label |-> label]

\* the bucket lists a caller supplies: adjacent ranges, ranges with a gap,
\* overlapping ranges, and one open-ended range
BucketLists ==
    { << Bucket(IntNum(-2), IntNum(0), "low"), Bucket(IntNum(0), IntNum(2), "high") >>,
      << Bucket(IntNum(-3), IntNum(-1), "low"), Bucket(IntNum(1), IntNum(3), "high") >>,
      << Bucket(IntNum(-2), IntNum(2), "middle"), Bucket(IntNum(0), PosInfinity, "positive") >>,
      << Bucket(IntNum(0), PosInfinity, "positive") >> }

Distribution ==
    /\ pc = "ready"
    /\ \E ranges \in BucketLists :
          output' = [fn |-> "distribution", ranges |-> ranges,
                     value |-> distribution(input, ranges),
                     categorized |->
                         categorizedDistribution(
                             [i \in 1..Len(input) |-> [value |-> input[i], item |-> i - 1]],
                             ranges, 5)]
    /\ pc' = "done"
    /\ UNCHANGED <<fsVars, input>>

InRangeOf(v, range) == AtLeast(IntNum(v), range.min) /\ Less(IntNum(v), range.max)

\* the number of values that fall within at least one range
Covered(values, ranges) ==
    Cardinality({i \in 1..Len(values) :
                    \E b \in 1..Len(ranges) : InRangeOf(values[i], ranges[b])})

RECURSIVE SumPercentages(_)
SumPercentages(buckets) ==
    IF buckets = <<>> THEN IntNum(0)
    ELSE Add(Head(buckets).percentage, SumPercentages(Tail(buckets)))

\* no value can fall within two of the ranges
NonOverlapping(ranges) ==
    \A b, c \in 1..Len(ranges) :
        b # c => ~(Less(ranges[b].min, ranges[c].max) /\ Less(ranges[c].min, ranges[b].max))

CountsMatchCovered ==
    /\ sumCounts(output.value) = Covered(input, output.ranges)
    /\ sumCounts(output.categorized) = Covered(input, output.ranges)
    /\ Leq(SumPercentages(output.value), IntNum(100))
    /\ Leq(SumPercentages(output.categorized), IntNum(100))

\* C13 (as claimed): for every value sequence and every list of bucket
\* ranges, the bucket counts of distribution and of categorizedDistribution
\* sum to the number of values within at least one range, and the
\* percentages sum to at most 100.
C13_CountsSumForEveryRanges ==
    Ran("distribution") => CountsMatchCovered

\* C13 (amended): the same for every list of ranges that do not overlap.
C13_CountsSumForDisjointRanges ==
    (Ran("distribution") /\ NonOverlapping(output.ranges)) => CountsMatchCovered

\* C13 witness: distribution has run on two ranges that do not overlap, each
\* holding a value, with a value outside both.
C13_Witness ==
    /\ Ran("distribution")
    /\ NonOverlapping(output.ranges)
    /\ Len(output.ranges) = 2
    /\ output.value[1].count >= 1
    /\ output.value[2].count >= 1
    /\ sumCounts(output.value) < Len(input)

TopN ==
    /\ pc = "ready"
    /\ \E n \in 0..MaxLen :
          output' = [fn |-> "topN", n |-> n, map |-> frequencyMap(input),
                     value |-> topN(frequencyMap(input), n)]
    /\ pc' = "done"
    /\ UNCHANGED <<fsVars, input>>

\* C14: for every token sequence and every n >= 0, topN(frequencyMap(tokens),
\* n) returns at most n entries in non-increasing order of count, no omitted
\* entry has a larger count than a returned one, and the counts of the full
\* frequency map sum to tokens.length.
C14_TopNOfFrequencyMap ==
    Ran("topN")
        => LET top == output.value
               returned == {top[i].item : i \in 1..Len(top)}
           IN  /\ Len(top) <= output.n
               /\ \A i \in 1..(Len(top) - 1) : top[i].count >= top[i + 1].count
               /\ \A i \in 1..Len(top) :
                     \E k \in 1..Len(output.map) :
                         output.map[k].item = top[i].item /\ output.map[k].count = top[i].count
               /\ \A k \in 1..Len(output.map) :
                     output.map[k].item \notin returned
                         => \A i \in 1..Len(top) : output.map[k].count <= top[i].count
               /\ sumCounts(output.map) = Len(input)

\* C14 witness: topN has kept one of two distinct tokens and left out the
\* rarer, which came first in the sequence.
C14_Witness ==
    /\ Ran("topN")
    /\ output.n = 1
    /\ Len(output.map) = 2
    /\ Len(output.value) = 1
    /\ output.map[1].count < output.value[1].count

\* mean and standardDeviation applied to the drawn sequence
Mean ==
    /\ pc = "ready"
    /\ output' = [fn |-> "mean", value |-> mean(input)]
    /\ pc' = "done"
    /\ UNCHANGED <<fsVars, input>>

StandardDeviation ==
    /\ pc = "ready"
    /\ output' = [fn |-> "standardDeviation", value |-> standardDeviation(input)]
    /\ pc' = "done"
    /\ UNCHANGED <<fsVars, input>>

\* zScore(value, refMean, refStdDev) on the first three numbers of the drawn
\* sequence, the third a deviation (not negative)
ZScore ==
    /\ pc = "ready"
    /\ Len(input) >= 3
    /\ input[3] >= 0
    /\ output' = [fn |-> "zScore", x |-> input[1], refMean |-> input[2],
                  refStdDev |-> input[3],
                  value |-> zScore(IntNum(input[1]), IntNum(input[2]), IntNum(input[3]))]
    /\ pc' = "done"
    /\ UNCHANGED <<fsVars, input>>

IsZero(x) == IsFinite(x) /\ Sign(x) = 0

\* C23: the statistics primitives return zero on degenerate input: mean([])
\* = 0, standardDeviation([]) = 0, standardDeviation(v) >= 0 for every
\* sequence v, and zScore(x, mean, 0) = 0 for every x and mean.
C23_ZeroOnDegenerateInput ==
    /\ (Ran("mean") /\ input = <<>>) => IsZero(output.value)
    /\ (Ran("standardDeviation") /\ input = <<>>) => IsZero(output.value)
    /\ Ran("standardDeviation") => (IsFinite(output.value) /\ Leq(IntNum(0), output.value))
    /\ (Ran("zScore") /\ output.refStdDev = 0) => IsZero(output.value)

\* C23 witness: zScore has been asked for a value away from the mean with a
\* reference deviation of zero.
C23_Witness ==
    /\ Ran("zScore")
    /\ output.refStdDev = 0
    /\ output.x # output.refMean

NextStats ==
    \/ Burstiness
    \/ DetectClusters
    \/ Distribution
    \/ TopN
    \/ Mean
    \/ StandardDeviation
    \/ ZScore

SpecStats == InitStats /\ [][NextStats]_vars

(***************************************************************************)
(* Part 13.  Paragraphs: the argument patterns of analyzeArgumentFlow      *)
(* (analyzers/punctuation.ts) and the paragraph transitions                *)
(* (analyzers/paragraph-transitions.ts).                                   *)
(***************************************************************************)
\* String.prototype.includes
includes(s, t) ==
    \E i \in 1..(Len(s) - Len(t) + 1) : \A j \in 1..Len(t) : s[i + j - 1] = t[j]

\* triggers.some(trigger => s.includes(trigger))
someIncluded(triggers, s) == \E k \in 1..Len(triggers) : includes(s, triggers[k])

\* /^(a|b|...)/.test(s)
startsWithSome(prefixes, s) ==
    \E k \in 1..Len(prefixes) :
        /\ Len(prefixes[k]) <= Len(s)
        /\ SubSeq(s, 1, Len(prefixes[k])) = prefixes[k]

\* s.split(/[.!?]+/) for a paragraph, computed from the positions where a
\* field starts: the fields between the maximal runs of sentence marks, with
\* an empty field before a leading run and after a trailing one
splitSentences(s) ==
    LET starts == Ascending({i \in 1..Len(s) :
                                /\ s[i] \notin SentenceEnd
                                /\ (i = 1 \/ s[i - 1] \in SentenceEnd)})
        ends(i) == IF \E k \in i..Len(s) : s[k] \in SentenceEnd
                   THEN (CHOOSE k \in i..Len(s) :
                            s[k] \in SentenceEnd /\ \A m \in i..(k - 1) : s[m] \notin SentenceEnd) - 1
                   ELSE Len(s)
        fields == [k \in 1..Len(starts) |-> SubSeq(s, starts[k], ends(starts[k]))]
    IN  IF s = <<>> THEN << <<>> >>
        ELSE (IF s[1] \in SentenceEnd THEN << <<>> >> ELSE <<>>)
             \o fields
             \o (IF s[Len(s)] \in SentenceEnd THEN << <<>> >> ELSE <<>>)

\* para.split(/[.!?]+/).filter(s => s.trim().length > 20)
longSentences(para) == SelectSeq(splitSentences(para), LAMBDA s : Len(trim(s)) > 20)

LowerChars == {LowerCase[i] : i \in 1..26}
UpperChars == {UpperCase[i] : i \in 1..26}

\* calculateConfidence: the label and the score of a pattern
calculateConfidence_HighFromSixTenths(strongMatches, weakMatches, totalMatches) ==
    IF totalMatches = 0 THEN [label |-> "low", score |-> IntNum(0)]
    ELSE LET strongRatio == Div(IntNum(strongMatches), IntNum(totalMatches))
         IN  IF AtLeast(strongRatio, Rat(6, 10)) THEN [label |-> "high", score |-> strongRatio]
             ELSE IF AtLeast(strongRatio, Rat(4, 10)) THEN [label |-> "medium", score |-> strongRatio]
             ELSE [label |-> "low", score |-> strongRatio]

calculateConfidence(strongMatches, weakMatches, totalMatches) ==
    IF totalMatches = 0 THEN [label |-> "low", score |-> IntNum(0)]
    ELSE LET strongRatio == Div(IntNum(strongMatches), IntNum(totalMatches))
         IN  IF AtLeast(strongRatio, Rat(7, 10)) THEN [label |-> "high", score |-> strongRatio]
             ELSE IF AtLeast(strongRatio, Rat(4, 10)) THEN [label |-> "medium", score |-> strongRatio]
             ELSE [label |-> "low", score |-> strongRatio]

warningTriggers ==
    <<
      <<"b", "e", "f", "o", "r", "e", " ", "w", "e">>,
      <<"c", "a", "v", "e", "a", "t">>,
      <<"w", "a", "r", "n", "i", "n", "g">>,
      <<"w", "a", "t", "c", "h", " ", "o", "u", "t">>,
      <<"b", "e", " ", "c", "a", "r", "e", "f", "u", "l">>
    >>

evidenceTriggers ==
    <<
      <<"i", "'", "v", "e", " ", "t", "e", "s", "t", "e", "d">>,
      <<"i", "n", " ", "m", "y", " ", "e", "x", "p", "e", "r", "i", "e", "n", "c", "e">>,
      <<"a", "f", "t", "e", "r", " ", "u", "s", "i", "n", "g">>,
      <<"i", "'", "v", "e", " ", "f", "o", "u", "n", "d">>
    >>

problemTriggers ==
    <<
      <<"t", "h", "e", " ", "p", "r", "o", "b", "l", "e", "m">>,
      <<"t", "h", "e", " ", "i", "s", "s", "u", "e">>,
      <<"s", "t", "r", "u", "g", "g", "l", "e">>,
      <<"c", "h", "a", "l", "l", "e", "n", "g", "e">>
    >>

solutionTriggers ==
    <<
      <<"s", "o", "l", "u", "t", "i", "o", "n">>, <<"f", "i", "x">>,
      <<"a", "n", "s", "w", "e", "r">>, <<"w", "o", "r", "k", "s">>,
      <<"s", "o", "l", "v", "e", "d">>
    >>

\* /\d+/.test(para)
hasDigits(para) == \E i \in 1..Len(para) : para[i] \in Digits

\* the loop body of detectWarningPattern for one paragraph: "strong" or
\* "weak" when the paragraph becomes an example, "none" when it does not
warningMatch(para) ==
    LET lower == toLowerCase(para)
        hasExample ==
            \/ includes(lower, <<"f", "o", "r", " ", "e", "x", "a", "m", "p", "l", "e">>)
            \/ includes(lower, <<"f", "o", "r", " ", "i", "n", "s", "t", "a", "n", "c", "e">>)
            \/ hasDigits(para)
        hasAdvice ==
            \/ includes(lower, <<"i", "n", "s", "t", "e", "a", "d">>)
            \/ includes(lower, <<"s", "h", "o", "u", "l", "d">>)
            \/ includes(lower, <<"r", "e", "c", "o", "m", "m", "e", "n", "d">>)
    IN  IF ~someIncluded(warningTriggers, lower) THEN "none"
        ELSE IF Len(longSentences(para)) < 2 THEN "none"
        ELSE IF hasExample /\ hasAdvice THEN "strong"
        ELSE "weak"

\* the loop body of detectClaimEvidencePattern for one paragraph
claimEvidenceMatch(para) ==
    LET lower == toLowerCase(para)
        sentences == longSentences(para)
        hasClaimStart == Len(sentences[1]) < 150
        hasConclusion ==
            \/ includes(lower, <<"s", "o", " ">>)
            \/ includes(lower, <<"t", "h", "e", "r", "e", "f", "o", "r", "e">>)
            \/ includes(lower, <<"t", "h", "i", "s", " ", "m", "e", "a", "n", "s">>)
    IN  IF ~someIncluded(evidenceTriggers, lower) THEN "none"
        ELSE IF Len(sentences) < 2 THEN "none"
        ELSE IF hasClaimStart /\ hasConclusion THEN "strong"
        ELSE "weak"

\* the loop body of detectProblemSolutionPattern for one paragraph
problemSolutionMatch(para) ==
    LET lower == toLowerCase(para)
        hasProblem == someIncluded(problemTriggers, lower)
        hasSolution == someIncluded(solutionTriggers, lower)
        hasCounterObjection ==
            \/ includes(lower, <<"b", "u", "t", " ">>)
            \/ includes(lower, <<"h", "o", "w", "e", "v", "e", "r">>)
            \/ includes(lower, <<"a", "l", "t", "h", "o", "u", "g", "h">>)
    IN  IF ~(hasProblem /\ hasSolution) THEN "none"
        ELSE IF hasCounterObjection THEN "strong"
        ELSE "weak"

\* does /\b[A-Z][a-z]+\s+[A-Z0-9][a-z0-9]+(\s+(Pro|Ultra|Max|Plus|GT))?\b/
\* match at position i: each run is followed by a character outside its
\* class, so it is matched whole, and the optional group needs the same
\* word boundary before it as the match without it
productMatchAt(s, i) ==
    /\ Boundary(s, i)
    /\ s[i] \in UpperChars
    /\ LET a == RunEnd(s, i + 1, LowerChars)
           b == RunEnd(s, a + 1, WhiteSpace)
           c == RunEnd(s, b + 2, LowerChars \cup Digits)
       IN  /\ a >= i + 1
           /\ b >= a + 1
           /\ b + 1 <= Len(s)
           /\ s[b + 1] \in UpperChars \cup Digits
           /\ c >= b + 2
           /\ Boundary(s, c + 1)

\* para.match(productPattern) is not null
hasProduct(para) == \E i \in 1..Len(para) : productMatchAt(para, i)

\* the loop body of detectSpecificationPattern for one paragraph: an example
\* that has neither a benefit nor a defense counts in no tally
specificationMatch(para) ==
    LET lower == toLowerCase(para)
        hasBenefit ==
            \/ includes(lower, <<"b", "e", "c", "a", "u", "s", "e">>)
            \/ includes(lower, <<"l", "e", "t", "s", " ", "y", "o", "u">>)
            \/ includes(lower, <<"a", "l", "l", "o", "w", "s">>)
        hasDefense ==
            \/ includes(lower, <<"y", "e", "s">>)
            \/ includes(lower, <<"e", "x", "p", "e", "n", "s", "i", "v", "e">>)
            \/ includes(lower, <<"w", "o", "r", "t", "h">>)
    IN  IF ~(Len(para) > 200 /\ hasProduct(para)) THEN "none"
        ELSE IF hasBenefit /\ hasDefense THEN "strong"
        ELSE IF hasBenefit \/ hasDefense THEN "weak"
        ELSE "neither"

PatternNames ==
    [ warning |-> "Protective Warning -> Specific Example -> Practical Advice",
      claimEvidence |-> "Claim -> Personal Evidence -> Conclusion",
      problemSolution |-> "Problem -> Solution -> Counter-objection",
      specification |-> "Specification -> Why It Matters -> Preemptive Defense" ]

PatternKinds == <<"warning", "claimEvidence", "problemSolution", "specification">>

matchOf(kind, para) ==
    CASE kind = "warning" -> warningMatch(para)
      [] kind = "claimEvidence" -> claimEvidenceMatch(para)
      [] kind = "problemSolution" -> problemSolutionMatch(para)
      [] kind = "specification" -> specificationMatch(para)

\* the tallies and the examples of a detector after its loop has come to
\* paragraph n; the loop breaks once it holds three examples
RECURSIVE scanParagraphs(_, _, _)
scanParagraphs(kind, paragraphs, n) ==
    IF n = 0 THEN [strongMatches |-> 0, weakMatches |-> 0, examples |-> <<>>]
    ELSE Let(scanParagraphs(kind, paragraphs, n - 1),
             LAMBDA acc :
                IF Len(acc.examples) >= 3 THEN acc
                ELSE Let(matchOf(kind, paragraphs[n]),
                         LAMBDA m :
                            IF m = "none" THEN acc
                            ELSE [ strongMatches |-> acc.strongMatches + (IF m = "strong" THEN 1 ELSE 0),
                                   weakMatches |-> acc.weakMatches + (IF m = "weak" THEN 1 ELSE 0),
                                   examples |-> Append(acc.examples, paragraphs[n]) ]))

\* detectWarningPattern, detectClaimEvidencePattern,
\* detectProblemSolutionPattern and detectSpecificationPattern; an example
\* is kept as its fullText, its components being quotations of it
detectPattern(kind, paragraphs) ==
    Let(scanParagraphs(kind, paragraphs, Len(paragraphs)),
        LAMBDA scan :
            LET confidence == calculateConfidence(scan.strongMatches, scan.weakMatches,
                                                  Len(scan.examples))
            IN  [ pattern |-> PatternNames[kind],
                  frequency |-> Len(scan.examples),
                  confidence |-> confidence.label,
                  confidenceScore |-> confidence.score,
                  examples |-> scan.examples ])

\* detectArgumentPatterns: the patterns that have an example
detectArgumentPatterns(paragraphs) ==
    SelectSeq([k \in 1..Len(PatternKinds) |-> detectPattern(PatternKinds[k], paragraphs)],
              LAMBDA p : Len(p.examples) > 0)

technicalMarkers ==
    <<
      <<"s", "p", "e", "c", "i", "f", "i", "c", "a", "t", "i", "o", "n", "s">>,
      <<"p", "e", "r", "f", "o", "r", "m", "a", "n", "c", "e">>,
      <<"f", "e", "a", "t", "u", "r", "e", "s">>,
      <<"t", "e", "c", "h", "n", "i", "c", "a", "l">>,
      <<"m", "o", "d", "e", "l">>, <<"v", "e", "r", "s", "i", "o", "n">>
    >>

measureUnits ==
    <<
      <<"n", "m">>, <<"k", "g">>, <<"m", "m">>, <<"w", "a", "t", "t", "s">>,
      <<"h", "z">>, <<"f", "p", "s">>
    >>

personalMarkers ==
    <<
      <<"i", "'", "v", "e">>, <<"m", "y">>,
      <<"i", " ", "t", "e", "s", "t", "e", "d">>,
      <<"i", "n", " ", "m", "y", " ", "e", "x", "p", "e", "r", "i", "e", "n", "c", "e">>,
      <<"i", " ", "f", "o", "u", "n", "d">>
    >>

warningMarkers ==
    <<
      <<"b", "e", "f", "o", "r", "e">>, <<"c", "a", "v", "e", "a", "t">>,
      <<"w", "a", "r", "n", "i", "n", "g">>,
      <<"w", "a", "t", "c", "h", " ", "o", "u", "t">>,
      <<"b", "e", " ", "c", "a", "r", "e", "f", "u", "l">>,
      <<"a", "v", "o", "i", "d">>
    >>

exampleMarkers ==
    <<
      <<"f", "o", "r", " ", "e", "x", "a", "m", "p", "l", "e">>,
      <<"f", "o", "r", " ", "i", "n", "s", "t", "a", "n", "c", "e">>,
      <<"c", "o", "n", "s", "i", "d", "e", "r">>,
      <<"i", "m", "a", "g", "i", "n", "e">>,
      <<"s", "a", "y", " ", "y", "o", "u">>
    >>

additivePrefixes ==
    <<
      <<"a", "n", "d">>, <<"a", "l", "s", "o">>,
      <<"a", "d", "d", "i", "t", "i", "o", "n", "a", "l", "l", "y">>,
      <<"f", "u", "r", "t", "h", "e", "r", "m", "o", "r", "e">>,
      <<"m", "o", "r", "e", "o", "v", "e", "r">>
    >>

contrastPrefixes ==
    <<
      <<"b", "u", "t">>, <<"h", "o", "w", "e", "v", "e", "r">>,
      <<"t", "h", "o", "u", "g", "h">>,
      <<"a", "l", "t", "h", "o", "u", "g", "h">>, <<"y", "e", "t">>,
      <<"s", "t", "i", "l", "l">>
    >>

causalPrefixes ==
    <<
      <<"s", "o">>, <<"t", "h", "e", "r", "e", "f", "o", "r", "e">>,
      <<"t", "h", "u", "s">>, <<"h", "e", "n", "c", "e">>,
      <<"c", "o", "n", "s", "e", "q", "u", "e", "n", "t", "l", "y">>,
      <<"a", "s", " ", "a", " ", "r", "e", "s", "u", "l", "t">>
    >>

temporalPrefixes ==
    <<
      <<"n", "o", "w">>, <<"t", "h", "e", "n">>, <<"n", "e", "x", "t">>,
      <<"a", "f", "t", "e", "r">>, <<"b", "e", "f", "o", "r", "e">>,
      <<"w", "h", "e", "n">>, <<"o", "n", "c", "e">>
    >>

examplePrefixes ==
    <<
      <<"f", "o", "r", " ", "e", "x", "a", "m", "p", "l", "e">>,
      <<"f", "o", "r", " ", "i", "n", "s", "t", "a", "n", "c", "e">>,
      <<"c", "o", "n", "s", "i", "d", "e", "r">>,
      <<"i", "m", "a", "g", "i", "n", "e">>
    >>

emphasisPrefixes ==
    <<
      <<"i", "m", "p", "o", "r", "t", "a", "n", "t", "l", "y">>,
      <<"c", "r", "u", "c", "i", "a", "l", "l", "y">>,
      <<"n", "o", "t", "e", " ", "t", "h", "a", "t">>,
      <<"r", "e", "m", "e", "m", "b", "e", "r">>,
      <<"t", "h", "e", " ", "k", "e", "y">>
    >>

restartPrefixes ==
    <<
      <<"l", "o", "o", "k">>, <<"w", "e", "l", "l">>, <<"o", "k", "a", "y">>,
      <<"r", "i", "g", "h", "t">>, <<"a", "c", "t", "u", "a", "l", "l", "y">>
    >>

\* /\d+\s*(nm|kg|mm|watts|hz|fps)/i.test(para)
hasMeasure(para) ==
    LET lower == toLowerCase(para)
    IN  \E i \in 1..Len(para) :
            /\ para[i] \in Digits
            /\ LET u == RunEnd(para, i + 1, WhiteSpace) + 1
               IN  \E j \in (i + 1)..u : startsWithSome(measureUnits, SubSeq(lower, j, Len(lower)))

classifyParagraph(para) ==
    LET lower == toLowerCase(para)
        hasTechnical == someIncluded(technicalMarkers, lower) \/ hasMeasure(para)
        hasPersonal == someIncluded(personalMarkers, lower)
        hasWarning == someIncluded(warningMarkers, lower)
        hasExample == someIncluded(exampleMarkers, lower)
    IN  IF hasWarning THEN "warning"
        ELSE IF hasPersonal THEN "personal"
        ELSE IF hasExample THEN "example"
        ELSE IF hasTechnical THEN "technical"
        ELSE "explanation"

\* para.split(/[.!?]/)[0].toLowerCase().trim()
firstSentenceOf(para) ==
    LET marks == {k \in 1..Len(para) : para[k] \in SentenceEnd}
        first == IF marks = {} THEN para
                 ELSE SubSeq(para, 1, (CHOOSE k \in marks : \A m \in marks : k <= m) - 1)
    IN  trim(toLowerCase(first))

detectLinkingDevice(para) ==
    LET firstSentence == firstSentenceOf(para)
    IN  IF startsWithSome(additivePrefixes, firstSentence) THEN "additive"
        ELSE IF startsWithSome(contrastPrefixes, firstSentence) THEN "contrast"
        ELSE IF startsWithSome(causalPrefixes, firstSentence) THEN "causal"
        ELSE IF startsWithSome(temporalPrefixes, firstSentence) THEN "temporal"
        ELSE IF startsWithSome(examplePrefixes, firstSentence) THEN "example"
        ELSE IF startsWithSome(emphasisPrefixes, firstSentence) THEN "emphasis"
        ELSE IF includes(firstSentence, <<"?">>) THEN "question"
        ELSE IF startsWithSome(restartPrefixes, firstSentence) THEN "conversational_restart"
        ELSE "implicit"

(***************************************************************************)
(* The paragraphs the detectors are run on: sequences of at most           *)
(* MaxParagraphs paragraphs, each longer than the 100 characters that      *)
(* analyzeArgumentFlow asks of a paragraph.                                *)
(***************************************************************************)
MaxParagraphs == 3

WarningWithAdvice ==
    <<
      "W", "a", "r", "n", "i", "n", "g", ":", " ", "c", "h", "e", "a", "p",
      " ", "c", "a", "b", "l", "e", "s", " ", "f", "a", "i", "l", " ", "q",
      "u", "i", "t", "e", " ", "o", "f", "t", "e", "n", ".", " ", "F", "o",
      "r", " ", "e", "x", "a", "m", "p", "l", "e", ",", " ", "5", " ", "o",
      "f", " ", "t", "h", "e", "m", " ", "b", "r", "o", "k", "e", " ", "i",
      "n", " ", "t", "h", "e", " ", "f", "i", "r", "s", "t", " ", "w", "e",
      "e", "k", ".", " ", "Y", "o", "u", " ", "s", "h", "o", "u", "l", "d",
      " ", "b", "u", "y", " ", "t", "h", "e", " ", "b", "r", "a", "i", "d",
      "e", "d", " ", "o", "n", "e", "s", " ", "i", "n", "s", "t", "e", "a",
      "d", "."
    >>

WarningAlone ==
    <<
      "B", "e", "f", "o", "r", "e", " ", "w", "e", " ", "s", "t", "a", "r",
      "t", ",", " ", "o", "n", "e", " ", "c", "a", "v", "e", "a", "t", " ",
      "a", "b", "o", "u", "t", " ", "t", "h", "e", " ", "b", "a", "t", "t",
      "e", "r", "y", " ", "l", "i", "f", "e", " ", "o", "f", " ", "t", "h",
      "i", "s", " ", "l", "a", "p", "t", "o", "p", ".", " ", "I", "t", " ",
      "d", "r", "a", "i", "n", "s", " ", "a", " ", "l", "i", "t", "t", "l",
      "e", " ", "f", "a", "s", "t", "e", "r", " ", "i", "n", " ", "t", "h",
      "e", " ", "c", "o", "l", "d", " ", "w", "e", "a", "t", "h", "e", "r",
      " ", "o", "u", "t", "s", "i", "d", "e", "."
    >>

RestartQuestion ==
    <<
      "W", "e", "l", "l", ",", " ", "i", "s", " ", "m", "y", " ", "o", "l",
      "d", " ", "l", "a", "p", "t", "o", "p", " ", "s", "t", "i", "l", "l",
      " ", "w", "o", "r", "t", "h", " ", "t", "h", "e", " ", "m", "o", "n",
      "e", "y", " ", "t", "o", "d", "a", "y", "?", " ", "I", "'", "v", "e",
      " ", "t", "e", "s", "t", "e", "d", " ", "i", "t", " ", "a", "g", "a",
      "i", "n", " ", "f", "o", "r", " ", "a", " ", "w", "h", "o", "l", "e",
      " ", "m", "o", "n", "t", "h", ",", " ", "s", "o", " ", "i", "t", " ",
      "s", "t", "a", "y", "s", " ", "o", "n", " ", "t", "h", "e", " ", "d",
      "e", "s", "k", "."
    >>

PlainQuestion ==
    <<
      "I", "s", " ", "t", "h", "e", " ", "p", "r", "o", "b", "l", "e", "m",
      " ", "r", "e", "a", "l", "l", "y", " ", "t", "h", "e", " ", "o", "l",
      "d", "e", "r", " ", "m", "o", "d", "e", "l", "?", " ", "T", "h", "e",
      " ", "f", "i", "x", " ", "w", "o", "r", "k", "s", " ", "o", "n", " ",
      "e", "v", "e", "r", "y", " ", "v", "e", "r", "s", "i", "o", "n", " ",
      "w", "e", " ", "t", "r", "i", "e", "d", ",", " ", "b", "u", "t", " ",
      "i", "t", " ", "t", "a", "k", "e", "s", " ", "a", " ", "g", "o", "o",
      "d", " ", "w", "h", "i", "l", "e", " ", "t", "o", " ", "i", "n", "s",
      "t", "a", "l", "l", "."
    >>

ProductDefended ==
    <<
      "T", "h", "e", " ", "S", "o", "n", "y", " ", "A", "7", " ", "c", "o",
      "s", "t", "s", " ", "a", " ", "g", "r", "e", "a", "t", " ", "d", "e",
      "a", "l", ",", " ", "y", "e", "s", ",", " ", "b", "u", "t", " ", "i",
      "t", " ", "l", "e", "t", "s", " ", "y", "o", "u", " ", "s", "h", "o",
      "o", "t", " ", "i", "n", " ", "v", "e", "r", "y", " ", "l", "o", "w",
      " ", "l", "i", "g", "h", "t", ",", " ", "a", "n", "d", " ", "t", "h",
      "a", "t", " ", "a", "l", "o", "n", "e", " ", "i", "s", " ", "w", "o",
      "r", "t", "h", " ", "t", "h", "e", " ", "p", "r", "i", "c", "e", " ",
      "f", "o", "r", " ", "a", "n", "y", "o", "n", "e", " ", "w", "h", "o",
      " ", "w", "o", "r", "k", "s", " ", "a", "t", " ", "n", "i", "g", "h",
      "t", ",", " ", "i", "n", " ", "d", "i", "m", " ", "h", "a", "l", "l",
      "s", ",", " ", "a", "t", " ", "l", "o", "n", "g", " ", "i", "n", "d",
      "o", "o", "r", " ", "e", "v", "e", "n", "t", "s", " ", "o", "r", " ",
      "o", "n", " ", "d", "a", "r", "k", " ", "w", "i", "n", "t", "e", "r",
      " ", "s", "t", "r", "e", "e", "t", "s", " ", "i", "n", " ", "t", "o",
      "w", "n", "."
    >>

ProductListed ==
    <<
      "C", "o", "n", "s", "i", "d", "e", "r", " ", "t", "h", "e", " ", "N",
      "i", "k", "o", "n", " ", "Z", "6", " ", "o", "n", " ", "t", "h", "e",
      " ", "s", "h", "e", "l", "f", " ", "n", "e", "x", "t", " ", "t", "o",
      " ", "t", "h", "e", " ", "l", "e", "n", "s", "e", "s", ".", " ", "A",
      "l", "s", "o", " ", "o", "n", " ", "t", "h", "e", " ", "s", "h", "e",
      "l", "f", " ", "a", "r", "e", " ", "t", "w", "o", " ", "s", "p", "a",
      "r", "e", " ", "b", "a", "t", "t", "e", "r", "i", "e", "s", ",", " ",
      "a", " ", "s", "m", "a", "l", "l", " ", "c", "h", "a", "r", "g", "e",
      "r", ",", " ", "a", " ", "g", "r", "e", "y", " ", "s", "t", "r", "a",
      "p", ",", " ", "a", " ", "c", "l", "e", "a", "n", "i", "n", "g", " ",
      "c", "l", "o", "t", "h", ",", " ", "a", " ", "l", "e", "n", "s", " ",
      "h", "o", "o", "d", ",", " ", "a", " ", "r", "e", "m", "o", "t", "e",
      " ", "r", "e", "l", "e", "a", "s", "e", " ", "a", "n", "d", " ", "a",
      " ", "p", "r", "i", "n", "t", "e", "d", " ", "m", "a", "n", "u", "a",
      "l", " ", "i", "n", " ", "a", " ", "p", "l", "a", "s", "t", "i", "c",
      " ", "s", "l", "e", "e", "v", "e", "."
    >>

ParagraphSamples ==
    { WarningWithAdvice, WarningAlone, RestartQuestion,
      PlainQuestion, ProductDefended, ProductListed }

(***************************************************************************)
(* Specification SpecParagraphs: the detectors applied to a sequence of    *)
(* paragraphs.                                                             *)
(***************************************************************************)
InitParagraphs ==
    /\ FsIdle
    /\ input \in SeqsUpTo(ParagraphSamples, MaxParagraphs)
    /\ output = NotRun
    /\ pc = "ready"

\* detectArgumentPatterns(paragraphs); the output also keeps the four
\* patterns as detected, before those without an example are left out
DetectArgumentPatterns ==
    /\ pc = "ready"
    /\ output' = [ fn |-> "detectArgumentPatterns",
                   detected |-> [k \in 1..Len(PatternKinds) |-> detectPattern(PatternKinds[k], input)],
                   value |-> detectArgumentPatterns(input) ]
    /\ pc' = "done"
    /\ UNCHANGED <<fsVars, input>>

\* classifyParagraph(para) for a paragraph of the input
ClassifyParagraph ==
    /\ pc = "ready"
    /\ \E i \in 1..Len(input) :
          output' = [fn |-> "classifyParagraph", para |-> input[i], value |-> classifyParagraph(input[i])]
    /\ pc' = "done"
    /\ UNCHANGED <<fsVars, input>>

\* detectLinkingDevice(para) for a paragraph of the input
DetectLinkingDevice ==
    /\ pc = "ready"
    /\ \E i \in 1..Len(input) :
          output' = [fn |-> "detectLinkingDevice", para |-> input[i], value |-> detectLinkingDevice(input[i])]
    /\ pc' = "done"
    /\ UNCHANGED <<fsVars, input>>

\* para.split(/[.!?]/)[0] and para.split(/[.!?]+/)[0]: the text before the
\* first sentence mark
firstField0(para) ==
    LET marks == {k \in 1..Len(para) : para[k] \in SentenceEnd}
    IN  IF marks = {} THEN para
        ELSE SubSeq(para, 1, (CHOOSE k \in marks : \A m \in marks : k <= m) - 1)

\* the counter that the loop of analyzeParagraphs adds a paragraph to;
\* /^(I|I've|I'm|My|For me|In my)/i
personalOpeners == << <<"i">>, <<"i", "'", "v", "e">>, <<"i", "'", "m">>, <<"m", "y">>,
                      <<"f", "o", "r", " ", "m", "e">>, <<"i", "n", " ", "m", "y">> >>
openingCounter(para) ==
    LET firstSentence == trim(firstField0(para))
    IN  IF includes(firstSentence, <<"?">>) THEN "question"
        ELSE IF startsWithSome(personalOpeners, toLowerCase(firstSentence)) THEN "personal"
        ELSE "statement"

\* the type analyzeParagraphOpenings counts a paragraph under, "none" for a
\* paragraph it skips
openingType(para) ==
    LET firstSentence == trim(firstField0(para))
    IN  IF firstSentence = <<>> THEN "none" ELSE classifyOpening(firstSentence)

\* one pass of the loop of analyzeParagraphs over a paragraph of the input
CountOpening ==
    /\ pc = "ready"
    /\ \E i \in 1..Len(input) :
          output' = [fn |-> "analyzeParagraphs", para |-> input[i], value |-> openingCounter(input[i])]
    /\ pc' = "done"
    /\ UNCHANGED <<fsVars, input>>

\* one pass of the loop of analyzeParagraphOpenings over a paragraph of the
\* input
ClassifyOpening ==
    /\ pc = "ready"
    /\ \E i \in 1..Len(input) :
          output' = [fn |-> "classifyOpening", para |-> input[i], value |-> openingType(input[i])]
    /\ pc' = "done"
    /\ UNCHANGED <<fsVars, input>>

NextParagraphs ==
    \/ DetectArgumentPatterns
    \/ ClassifyParagraph
    \/ DetectLinkingDevice
    \/ CountOpening
    \/ ClassifyOpening

SpecParagraphs == InitParagraphs /\ [][NextParagraphs]_vars

\* the examples of a detected pattern that are strong matches of its kind
StrongExamples(k) ==
    Cardinality({i \in 1..Len(output.detected[k].examples) :
                    matchOf(PatternKinds[k], output.detected[k].examples[i]) = "strong"})

\* the label the thresholds give to strong matches out of total matches
LabelOf(strong, total) ==
    IF total > 0 /\ 10 * strong >= 7 * total THEN "high"
    ELSE IF total > 0 /\ 10 * strong >= 4 * total THEN "medium"
    ELSE "low"

\* C15: every argument-flow pattern is labelled 'high' when strong matches /
\* total matches >= 0.7, 'medium' when the ratio is >= 0.4 and < 0.7, and
\* 'low' otherwise, also when nothing matched; its score is that ratio.
C15_ConfidenceFromStrongRatio ==
    Ran("detectArgumentPatterns") =>
        /\ \A k \in 1..Len(PatternKinds) :
              LET p == output.detected[k]
                  total == Len(p.examples)
                  strong == StrongExamples(k)
              IN  /\ p.frequency = total
                  /\ p.confidence = LabelOf(strong, total)
                  /\ IF total = 0 THEN p.confidenceScore = IntNum(0)
                     ELSE Eq(p.confidenceScore, Rat(strong, total))
        /\ \A j \in 1..Len(output.value) :
              \E k \in 1..Len(PatternKinds) :
                  output.value[j] = output.detected[k] /\ Len(output.detected[k].examples) > 0

\* two strong warnings and a weak one give 'medium', while another pattern
\* has no match and one has an example that is neither strong nor weak
C15_Witness ==
    /\ Ran("detectArgumentPatterns")
    /\ output.detected[1].frequency = 3
    /\ StrongExamples(1) = 2
    /\ output.detected[1].confidence = "medium"
    /\ \E k \in 1..Len(PatternKinds) :
          output.detected[k].frequency = 0 /\ output.detected[k].confidence = "low"

\* the first sentence of a paragraph with the mark that ends it
firstSentenceWithMark(para) ==
    LET marks == {k \in 1..Len(para) : para[k] \in SentenceEnd}
    IN  IF marks = {} THEN para
        ELSE SubSeq(para, 1, CHOOSE k \in marks : \A m \in marks : k <= m)

\* the devices a paragraph matches, in the order of the checks; a first
\* sentence that ends with a question mark is a question
MatchedDevices(para) ==
    LET s == firstSentenceOf(para)
        all == << [device |-> "additive", matches |-> startsWithSome(additivePrefixes, s)],
                  [device |-> "contrast", matches |-> startsWithSome(contrastPrefixes, s)],
                  [device |-> "causal", matches |-> startsWithSome(causalPrefixes, s)],
                  [device |-> "temporal", matches |-> startsWithSome(temporalPrefixes, s)],
                  [device |-> "example", matches |-> startsWithSome(examplePrefixes, s)],
                  [device |-> "emphasis", matches |-> startsWithSome(emphasisPrefixes, s)],
                  [device |-> "question", matches |-> includes(firstSentenceWithMark(para), <<"?">>)],
                  [device |-> "conversational_restart", matches |-> startsWithSome(restartPrefixes, s)] >>
    IN  SelectSeq(all, LAMBDA d : d.matches)

\* C16: classifyParagraph gives the type by the order warning > personal >
\* example > technical > explanation, and detectLinkingDevice returns the
\* first matching device in the order additive, contrast, causal, temporal,
\* example, emphasis, question, conversational_restart, otherwise 'implicit'.
C16_FirstMatchWins ==
    /\ Ran("classifyParagraph") =>
          LET lower == toLowerCase(output.para)
          IN  output.value =
                 IF someIncluded(warningMarkers, lower) THEN "warning"
                 ELSE IF someIncluded(personalMarkers, lower) THEN "personal"
                 ELSE IF someIncluded(exampleMarkers, lower) THEN "example"
                 ELSE IF someIncluded(technicalMarkers, lower) \/ hasMeasure(output.para) THEN "technical"
                 ELSE "explanation"
    /\ Ran("detectLinkingDevice") =>
          LET matched == MatchedDevices(output.para)
          IN  output.value = IF matched = <<>> THEN "implicit" ELSE matched[1].device

\* does the first sentence of the paragraph end with a question mark
FirstSentenceIsQuestion(para) ==
    LET first == firstSentenceWithMark(para)
    IN  first # <<>> /\ first[Len(first)] = "?"

\* C28: a paragraph whose first sentence is a question (it ends with '?') is
\* classified as a question opening: analyzeParagraphs counts it under
\* 'question', classifyOpening returns 'question', and detectLinkingDevice
\* returns 'question' when no higher-priority device matches.
C28_QuestionOpeningIsQuestion ==
    /\ (Ran("analyzeParagraphs") /\ FirstSentenceIsQuestion(output.para))
          => output.value = "question"
    /\ (Ran("classifyOpening") /\ FirstSentenceIsQuestion(output.para))
          => output.value = "question"
    /\ (Ran("detectLinkingDevice") /\ FirstSentenceIsQuestion(output.para))
          => output.value \in {"additive", "contrast", "causal", "temporal", "example",
                               "emphasis", "question"}

(***************************************************************************)
(* Claims on the analyzers of a text, continued (checked under SpecText).  *)
(***************************************************************************)
WordTokens(text) == SelectSeq(split(toLowerCase(text), "\\W"), NonEmpty)

\* a formal word: a formal verb or its -s, -ed or -ing form, a formal
\* adjective or a formal adverb
IsFormalWord(w) ==
    \/ \E i \in 1..Len(FORMAL_VERBS) :
          w \in { FORMAL_VERBS[i], FORMAL_VERBS[i] \o <<"s">>,
                  FORMAL_VERBS[i] \o <<"e", "d">>, FORMAL_VERBS[i] \o <<"i", "n", "g">> }
    \/ \E i \in 1..Len(FORMAL_ADJECTIVES) : w = FORMAL_ADJECTIVES[i]
    \/ \E i \in 1..Len(FORMAL_ADVERBS) : w = FORMAL_ADVERBS[i]

\* C17: formalityScore is the number of word tokens that are formal words
\* divided by the number of word tokens, times 1000, rounded; each token is
\* counted at most once, so the score lies in 0..1000.
C17_FormalityScoreCountsTokensOnce ==
    (Ran("analyzeVocabularyTiers") /\ WordTokens(input) # <<>>) =>
        LET tokens == WordTokens(input)
            formal == Count(tokens, IsFormalWord)
        IN  /\ InRange(output.value.formalityScore, 0, 1000)
            /\ Eq(output.value.formalityScore,
                  Round(Scale(Rat(formal, Len(tokens)), 1000, 1), 0, 3000))

\* the frequency per 1000 words that the report gives for a table word
ReportedFrequency(word) ==
    output.value.frequencies[CHOOSE i \in 1..Len(output.value.frequencies) :
                                 output.value.frequencies[i].word = word].frequency

\* C18: for every word of the function-word table, the output of
\* analyzeFunctionWords holds a z-score entry computed from the word's
\* frequency per 1000 words and the word's baseline mean and standard
\* deviation.
C18_ZScoreForEveryTableWord ==
    Ran("analyzeFunctionWords") =>
        \A i \in 1..Len(FUNCTION_WORDS) :
            LET word == FUNCTION_WORDS[i].word
            IN  /\ word \in DOMAIN output.value.zScores
                /\ HasStats(word)
                /\ Eq(output.value.zScores[word].zScore,
                      zScore(ReportedFrequency(word), StatsOf(word).mean, StatsOf(word).stdDev))

\* C19: for every input text, the totalScore that analyzeAntiMechanical
\* reports equals the sum of the four sub-scores of the same result.
C19_TotalIsSumOfSubScores ==
    Ran("analyzeAntiMechanical") =>
        LET n == output.value.naturalness
        IN  /\ IsFinite(n.totalScore)
            /\ Eq(n.totalScore,
                  Add(Add(n.sentenceVariationScore, n.paragraphVariationScore),
                      Add(n.firstPersonScore, n.repetitionScore)))

(***************************************************************************)
(* Claims on the corpus directory, continued (checked under Spec).         *)
(***************************************************************************)
\* the reports generateStyleGuide (v3) reads
ReadsV3 == RequiredV3 \cup OptionalV3

Collected == result.op = "collect_corpus" /\ result.outcome = "ok"

\* the positions of the trace that hold an event of one kind for one URL
EventsOf(trace, ev, url) == {k \in 1..Len(trace) : trace[k] = [ev |-> ev, url |-> url]}

Fetches(trace) == {k \in 1..Len(trace) : trace[k].ev = "fetch"}

\* C21: collect_corpus fetches the URLs one at a time in list order, and
\* between two consecutive fetches the delay elapses, whether the earlier URL
\* was saved, skipped as too short, or failed.
C21_DelayBetweenFetches ==
    Collected =>
        LET trace == result.trace
        IN  /\ \A j, k \in Fetches(trace) : j < k => trace[j].url < trace[k].url
            /\ \A j, k \in Fetches(trace) :
                  (j < k /\ \A m \in (j + 1)..(k - 1) : trace[m].ev # "fetch")
                     => \E m \in (j + 1)..(k - 1) : trace[m].ev = "delay"

\* C26: a failure on one URL does not stop the run: every URL of the list is
\* attempted exactly once, each attempt ends as exactly one of a file
\* written, a skip or an entry in errors, and corpus.json is written at the
\* end with total_articles equal to the number of article files this run
\* wrote.
C26_EveryUrlAttemptedOnce ==
    Collected =>
        LET trace == result.trace
            outcomes(url) ==
                EventsOf(trace, "write", url) \cup EventsOf(trace, "error", url)
                \cup { k \in EventsOf(trace, "delay", url) :
                          EventsOf(trace, "write", url) = {} }
        IN  /\ \A url \in 1..result.urls :
                  /\ Cardinality(EventsOf(trace, "fetch", url)) = 1
                  /\ Cardinality(outcomes(url)) = 1
                  /\ \A k \in outcomes(url) : \A f \in EventsOf(trace, "fetch", url) : f < k
            /\ \A k \in 1..Len(trace) : trace[k].url \in 1..result.urls
            /\ FileName(0, "corpus.json") \in result.written
            /\ corpusJson # NoFile
            /\ corpusJson.statistics.total_articles
                  = Cardinality(result.written \ {FileName(0, "corpus.json")})
            /\ corpusJson.statistics.total_articles
                  = Cardinality({k \in 1..Len(trace) : trace[k].ev = "write"})

\* C26 witness: a run whose first URL failed and whose second URL was saved
C26_Witness ==
    /\ Collected
    /\ result.urls = 2
    /\ EventsOf(result.trace, "error", 1) # {}
    /\ EventsOf(result.trace, "write", 2) # {}
    /\ corpusJson.statistics.total_articles = 1

\* C29: after any sequence of collect_corpus calls on one corpus directory,
\* the Markdown files in articles/ are exactly the articles recorded in
\* corpus.json by the latest call.
C29_ArticlesAreLatestCollection ==
    Collected =>
        /\ DOMAIN articles.files = result.written \ {FileName(0, "corpus.json")}
        /\ Cardinality(DOMAIN articles.files) = corpusJson.statistics.total_articles

\* C25: after any sequence of analyze_corpus runs, with any mix of
\* analysis_type values and the article set changing between runs, every
\* report present in analysis/ was written by the most recent run and so
\* describes the article set that run read.  Reports that no analyze_corpus
\* run wrote are left aside.
C25_ReportsAreFromLatestRun ==
    (result.op = "analyze_corpus" /\ result.outcome = "ok") =>
        \A f \in Present(analysis) :
            analysis[f] # External =>
                /\ FileName(0, f) \in result.written
                /\ analysis[f].from = DOMAIN articles.files
(***************************************************************************)
(* Part 17.  SpecFrame: one process calls analyzers one after the other on *)
(* the same objects.  The state holds what a later call can read: the text *)
(* (a string), an array of numbers handed to median, and the module-level  *)
(* tables of the analyzers.                                                *)
(***************************************************************************)
MaxCalls == 2         \* invocations in one process

RECURSIVE insertAscending(_, _)
insertAscending(sorted, v) ==
    IF sorted = <<>> \/ v < Head(sorted) THEN <<v>> \o sorted
    ELSE <<Head(sorted)>> \o insertAscending(Tail(sorted), v)

\* [...values].sort((a, b) => a - b)
RECURSIVE sortAscending(_)
sortAscending(values) ==
    IF values = <<>> THEN <<>>
    ELSE insertAscending(sortAscending(Tail(values)), Head(values))

\* mutant of median: values.sort(...) on the argument itself, no copy
median_SortsInPlace(values) ==
    LET sorted == sortAscending(values)
        mid == Len(sorted) \div 2
    IN  [value |-> IF Len(values) = 0 THEN IntNum(0)
                   ELSE IF Len(sorted) % 2 = 0 THEN Rat(sorted[mid] + sorted[mid + 1], 2)
                   ELSE IntNum(sorted[mid + 1]),
         values |-> sorted]

\* median: the value returned and the argument array as the call leaves it;
\* the sort works on a copy
median(values) ==
    LET sorted == sortAscending(values)
        mid == Len(sorted) \div 2
    IN  [value |-> IF Len(values) = 0 THEN IntNum(0)
                   ELSE IF Len(sorted) % 2 = 0 THEN Rat(sorted[mid] + sorted[mid + 1], 2)
                   ELSE IntNum(sorted[mid + 1]),
         values |-> values]

\* the module-level tables the analyzers read
SharedTables ==
    [FUNCTION_WORDS |-> FUNCTION_WORDS, GENERAL_ENGLISH_STATS |-> GENERAL_ENGLISH_STATS,
     FORMAL_VERBS |-> FORMAL_VERBS, FORMAL_ADJECTIVES |-> FORMAL_ADJECTIVES,
     FORMAL_ADVERBS |-> FORMAL_ADVERBS, AI_SLOP |-> AI_SLOP]

FrameTexts ==
    { Flatten(<<<<"t", "h", "e">>, <<" ">>, <<"d", "e", "l", "v", "e">>>>),
      Flatten(<<<<"I">>, <<" ">>, <<"s", "u", "f", "f", "i", "c", "i", "e", "n", "t">>>>) }

InitFrame ==
    /\ FsIdle
    /\ input \in [text : FrameTexts, values : SeqsUpTo(0..MaxValue, 3), tables : {SharedTables}]
    /\ output = [fn |-> "none", value |-> NotRun, calls |-> 0]
    /\ pc = "ready"

\* median(values): the array is the caller's, the call hands over a reference
Median ==
    /\ pc = "ready"
    /\ output.calls < MaxCalls
    /\ output' = [fn |-> "median", value |-> median(input.values).value,
                  calls |-> output.calls + 1]
    /\ input' = [input EXCEPT !.values = median(input.values).values]
    /\ pc' = "done"
    /\ UNCHANGED fsVars

\* analyzeVocabularyTiers(text): the word lists are read in for-of loops, the
\* arrays sorted in place are the ones the call built
FrameVocabularyTiers ==
    /\ pc = "ready"
    /\ output.calls < MaxCalls
    /\ output' = [fn |-> "analyzeVocabularyTiers", value |-> analyzeVocabularyTiers(input.text),
                  calls |-> output.calls + 1]
    /\ pc' = "done"
    /\ UNCHANGED <<fsVars, input>>

\* analyzeFunctionWords(text): the table and the baseline are read, the sorts
\* work on the arrays filter returned
FrameFunctionWords ==
    /\ pc = "ready"
    /\ output.calls < MaxCalls
    /\ output' = [fn |-> "analyzeFunctionWords", value |-> analyzeFunctionWords(input.text),
                  calls |-> output.calls + 1]
    /\ pc' = "done"
    /\ UNCHANGED <<fsVars, input>>

\* the call returns, the process goes on to its next call
Return ==
    /\ pc = "done"
    /\ pc' = "ready"
    /\ UNCHANGED <<fsVars, input, output>>

NextFrame ==
    \/ Median
    \/ FrameVocabularyTiers
    \/ FrameFunctionWords
    \/ Return

SpecFrame == InitFrame /\ [][NextFrame]_vars

myPattern == [words |-> {<<"m", "y">>, <<"o", "u", "r">>}, genitive |-> FALSE, ignoreCase |-> TRUE]
yourPattern == [words |-> {<<"y", "o", "u", "r">>, <<"y", "o", "u", "r", "s">>}, genitive |-> FALSE, ignoreCase |-> TRUE]
thirdPersonPattern == [words |-> {<<"t", "h", "e", "i", "r">>}, genitive |-> TRUE, ignoreCase |-> FALSE]
demonstrativePattern ==
    [words |-> {<<"t", "h", "i", "s">>, <<"t", "h", "a", "t">>, <<"t", "h", "e", "s", "e">>, <<"t", "h", "o", "s", "e">>}, genitive |-> FALSE, ignoreCase |-> TRUE]
thePattern == [words |-> {<<"t", "h", "e">>}, genitive |-> FALSE, ignoreCase |-> TRUE]
aAnPattern == [words |-> {<<"a">>, <<"a", "n">>}, genitive |-> FALSE, ignoreCase |-> TRUE]

NoMatch == [js |-> "null"]

\* does word w stand at position i of s
WordAt(s, i, w, ignoreCase) ==
    /\ i + Len(w) - 1 <= Len(s)
    /\ \A j \in 1..Len(w) :
          IF ignoreCase THEN toLowerCaseChar(s[i + j - 1]) = toLowerCaseChar(w[j])
          ELSE s[i + j - 1] = w[j]

\* the positions at which the first group can end when it starts at i and
\* \s+ follows: an alternative of the group, or [A-Z][a-z]+'s
DeterminerEnds(s, i, pat) ==
    {j \in i..(Len(s) - 1) :
        /\ s[j + 1] \in WhiteSpace
        /\ \/ \E w \in pat.words : Len(w) = j - i + 1 /\ WordAt(s, i, w, pat.ignoreCase)
           \/ /\ pat.genitive
              /\ j >= i + 3
              /\ s[i] \in UpperChars
              /\ \A k \in (i + 1)..(j - 2) : s[k] \in LowerChars
              /\ s[j - 1] = "'"
              /\ s[j] = "s"}

\* [a-z] and [a-z\s-] with and without the i flag
NounLetter(c, ignoreCase) == c \in LowerChars \/ (ignoreCase /\ c \in UpperChars)
NounChar(c, ignoreCase) == NounLetter(c, ignoreCase) \/ c \in WhiteSpace \/ c = "-"

\* the end of the whitespace run that starts at position i
SpaceEnd(s, i) == RunEnd(s, i, WhiteSpace)

\* the positions at which the lazy second group can end when it starts at k:
\* two to 31 characters of the class, followed by whitespace or one of .,!?
NounEnds(s, k, ignoreCase) ==
    {e \in (k + 1)..(Len(s) - 1) :
        /\ e <= k + 30
        /\ \A x \in (k + 1)..e : NounChar(s[x], ignoreCase)
        /\ s[e + 1] \in WhiteSpace \cup {".", ",", "!", "?"}}

\* the match of a determiner pattern that starts at position i, or NoMatch
matchAt(s, i, pat) ==
    IF ~Boundary(s, i) THEN NoMatch
    ELSE Let(DeterminerEnds(s, i, pat), LAMBDA js :
             IF js = {} THEN NoMatch
             ELSE Let(CHOOSE x \in js : TRUE, LAMBDA j :
                  Let(SpaceEnd(s, j + 1) + 1, LAMBDA k :
                      IF k > Len(s) \/ ~NounLetter(s[k], pat.ignoreCase) THEN NoMatch
                      ELSE Let(NounEnds(s, k, pat.ignoreCase), LAMBDA es :
                               IF es = {} THEN NoMatch
                               ELSE Let(CHOOSE x \in es : \A y \in es : x <= y, LAMBDA e :
                                        [index |-> i, determiner |-> SubSeq(s, i, j),
                                         noun |-> SubSeq(s, k, e), last |-> e])))))

\* the matches of `while ((match = regex.exec(text)) !== null)`: the leftmost
\* match from lastIndex on, then on from behind it
RECURSIVE execAll(_, _, _)
execAll(s, from, pat) ==
    Let({i \in from..Len(s) : matchAt(s, i, pat) # NoMatch}, LAMBDA starts :
        IF starts = {} THEN <<>>
        ELSE Let(matchAt(s, CHOOSE i \in starts : \A y \in starts : i <= y, pat), LAMBDA m :
             Let(m.last + 1, LAMBDA lastIndex : <<m>> \o execAll(s, lastIndex, pat))))

\* patterns.has / patterns.set / frequency++ / examples.push on the Map of
\* patterns, kept as the sequence of its values in insertion order; an
\* example is kept without its context
countPhrase(patterns, phrase, category) ==
    IF \E i \in 1..Len(patterns) : patterns[i].pattern = phrase
    THEN [i \in 1..Len(patterns) |->
            IF patterns[i].pattern = phrase
            THEN [patterns[i] EXCEPT !.frequency = @ + 1,
                                     !.examples = IF Len(@) < 3 THEN Append(@, phrase) ELSE @]
            ELSE patterns[i]]
    ELSE Append(patterns, [pattern |-> phrase, category |-> category,
                           examples |-> <<phrase>>, frequency |-> 1])

\* mutant of extractPatternMatches: a noun of three characters is skipped too
RECURSIVE extractPatternMatches_SkipsThreeLetterNouns(_, _, _, _)
extractPatternMatches_SkipsThreeLetterNouns(matches, n, category, patterns) ==
    IF n > Len(matches) THEN patterns
    ELSE Let(trim(matches[n].noun), LAMBDA noun :
         Let(IF Len(noun) <= 3 THEN patterns
             ELSE countPhrase(patterns, matches[n].determiner \o <<" ">> \o noun, category),
             LAMBDA counted : extractPatternMatches_SkipsThreeLetterNouns(matches, n + 1, category, counted)))

\* extractPatternMatches from the n-th match on: a noun shorter than three
\* characters is skipped, the phrase is determiner, a space and the noun
RECURSIVE extractPatternMatches(_, _, _, _)
extractPatternMatches(matches, n, category, patterns) ==
    IF n > Len(matches) THEN patterns
    ELSE Let(trim(matches[n].noun), LAMBDA noun :
         Let(IF Len(noun) < 3 THEN patterns
             ELSE countPhrase(patterns, matches[n].determiner \o <<" ">> \o noun, category),
             LAMBDA counted : extractPatternMatches(matches, n + 1, category, counted)))

\* the matches of /(?:^|\.\s+)([A-Z][a-z]+s)\s/g from position `from` on: a
\* capitalised word that ends in s, at the start of the text or behind a full
\* stop and whitespace, followed by whitespace (which the match takes)
barePluralAt(s, i) ==
    Let(IF i = 1 /\ s[1] \in UpperChars THEN 1
        ELSE IF s[i] = "." /\ i < Len(s) /\ s[i + 1] \in WhiteSpace
             THEN SpaceEnd(s, i + 1) + 1
             ELSE 0, LAMBDA k :
    Let(IF k = 0 \/ k > Len(s) THEN 0 ELSE RunEnd(s, k + 1, LowerChars), LAMBDA e :
        IF /\ k > 0 /\ k <= Len(s)
           /\ s[k] \in UpperChars
           /\ e >= k + 2
           /\ s[e] = "s"
           /\ e < Len(s)
           /\ s[e + 1] \in WhiteSpace
        THEN [index |-> i, plural |-> SubSeq(s, k, e), last |-> e + 1]
        ELSE NoMatch))

RECURSIVE execBarePlurals(_, _)
execBarePlurals(s, from) ==
    Let({i \in from..Len(s) : barePluralAt(s, i) # NoMatch}, LAMBDA starts :
        IF starts = {} THEN <<>>
        ELSE Let(barePluralAt(s, CHOOSE i \in starts : \A y \in starts : i <= y), LAMBDA m :
             Let(m.last + 1, LAMBDA lastIndex : <<m>> \o execBarePlurals(s, lastIndex))))

RECURSIVE extractBarePluralPatches(_, _, _)
extractBarePluralPatches(matches, n, patterns) ==
    IF n > Len(matches) THEN patterns
    ELSE Let(countPhrase(patterns, matches[n].plural, "bare_plural"),
             LAMBDA counted : extractBarePluralPatches(matches, n + 1, counted))

\* Array.prototype.sort((a, b) => b.frequency - a.frequency): stable
RECURSIVE insertByPatternFrequency(_, _)
insertByPatternFrequency(sorted, e) ==
    IF sorted = <<>> THEN <<e>>
    ELSE IF Head(sorted).frequency >= e.frequency
         THEN <<Head(sorted)>> \o insertByPatternFrequency(Tail(sorted), e)
         ELSE <<e>> \o sorted

RECURSIVE sortByPatternFrequency(_)
sortByPatternFrequency(entries) ==
    IF entries = <<>> THEN <<>>
    ELSE Let(sortByPatternFrequency(SubSeq(entries, 1, Len(entries) - 1)),
             LAMBDA sorted : insertByPatternFrequency(sorted, entries[Len(entries)]))

\* extractPatternMatches(text, regex, label, category, patterns): the Map
\* after the loop over the matches of the expression
extractInto(text, pat, category, patterns) ==
    Let(execAll(text, 1, pat), LAMBDA matches :
        extractPatternMatches(matches, 1, category, patterns))

detectPossessivePatterns(text) ==
    Let(extractInto(text, myPattern, "possessive", <<>>), LAMBDA p1 :
    Let(extractInto(text, yourPattern, "possessive", p1), LAMBDA p2 :
    Let(extractInto(text, thirdPersonPattern, "possessive", p2), LAMBDA p3 :
    Let(extractInto(text, demonstrativePattern, "demonstrative", p3), LAMBDA p4 :
        sortByPatternFrequency(p4)))))

detectGenericPatterns(text) ==
    Let(extractInto(text, thePattern, "generic_article", <<>>), LAMBDA p1 :
    Let(extractInto(text, aAnPattern, "generic_article", p1), LAMBDA p2 :
    Let(execBarePlurals(text, 1), LAMBDA plurals :
    Let(extractBarePluralPatches(plurals, 1, p2), LAMBDA p3 :
        sortByPatternFrequency(p3)))))

RECURSIVE sumFrequency(_)
sumFrequency(patterns) ==
    IF patterns = <<>> THEN 0 ELSE Head(patterns).frequency + sumFrequency(Tail(patterns))

\* the first group of /(?:my|our|your|this|that|these|those|'s|their)\s+(.+)/i
\* on a phrase: the leftmost determiner followed by whitespace and at least
\* one character that ends no line; the group runs to the end of the line
DominantDeterminers == {<<"m", "y">>, <<"o", "u", "r">>, <<"y", "o", "u", "r">>, <<"t", "h", "i", "s">>, <<"t", "h", "a", "t">>, <<"t", "h", "e", "s", "e">>, <<"t", "h", "o", "s", "e">>, <<"'", "s">>, <<"t", "h", "e", "i", "r">>}
LineTerminators == {"\n", "\r"}

nounGroupAt(s, p) ==
    Let({w \in DominantDeterminers :
            /\ WordAt(s, p, w, TRUE)
            /\ p + Len(w) <= Len(s)
            /\ s[p + Len(w)] \in WhiteSpace}, LAMBDA ws :
        IF ws = {} THEN NoMatch
        ELSE Let(p + Len(CHOOSE w \in ws : TRUE), LAMBDA a :
             Let({g \in (a + 1)..(SpaceEnd(s, a) + 1) :
                     g <= Len(s) /\ s[g] \notin LineTerminators}, LAMBDA gs :
                 IF gs = {} THEN NoMatch
                 ELSE Let(CHOOSE x \in gs : \A y \in gs : y <= x, LAMBDA g :
                          SubSeq(s, g, RunEnd(s, g, {s[x] : x \in 1..Len(s)} \ LineTerminators))))))

nounGroup(s) ==
    Let({p \in 1..Len(s) : nounGroupAt(s, p) # NoMatch}, LAMBDA ps :
        IF ps = {} THEN NoMatch ELSE nounGroupAt(s, CHOOSE p \in ps : \A y \in ps : p <= y))

\* nounCounts.set(noun, (nounCounts.get(noun) || 0) + pattern.frequency)
addNoun(nounCounts, noun, frequency) ==
    IF \E i \in 1..Len(nounCounts) : nounCounts[i].noun = noun
    THEN [i \in 1..Len(nounCounts) |->
            IF nounCounts[i].noun = noun THEN [nounCounts[i] EXCEPT !.count = @ + frequency]
            ELSE nounCounts[i]]
    ELSE Append(nounCounts, [noun |-> noun, count |-> frequency])

RECURSIVE nounCountsFrom(_, _, _)
nounCountsFrom(patterns, n, nounCounts) ==
    IF n > Len(patterns) THEN nounCounts
    ELSE Let(nounGroup(patterns[n].pattern), LAMBDA group :
         Let(IF group = NoMatch THEN nounCounts
             ELSE addNoun(nounCounts, toLowerCase(trim(group)), patterns[n].frequency),
             LAMBDA counted : nounCountsFrom(patterns, n + 1, counted)))

extractDominantNouns(possessivePatterns) ==
    Let(nounCountsFrom(possessivePatterns, 1, <<>>), LAMBDA nounCounts :
    Let(sortByCount(nounCounts), LAMBDA sorted :
        SubSeq(sorted, 1, IF Len(sorted) < 10 THEN Len(sorted) ELSE 10)))

interpretSpecificityRatio(ratio) ==
    IF Lt(Rat(4, 10), ratio) THEN "High specificity"
    ELSE IF Lt(Rat(25, 100), ratio) THEN "Moderate specificity"
    ELSE IF Lt(Rat(15, 100), ratio) THEN "Low specificity"
    ELSE "Very low specificity"

generateGuidance(ratio, dominantNouns) ==
    [ voice |-> IF Lt(Rat(3, 10), ratio) THEN "personal ownership"
                ELSE IF Lt(Rat(15, 100), ratio) THEN "balanced"
                ELSE "impersonal",
      topics |-> [i \in 1..(IF Len(dominantNouns) < 5 THEN Len(dominantNouns) ELSE 5) |->
                     dominantNouns[i].noun] ]

\* mutant of analyzeSpecificityPatterns: the ratio guarded by the sum of the
\* two totals
analyzeSpecificityPatterns_GuardsTheSum(text) ==
    Let(detectPossessivePatterns(text), LAMBDA possessivePatterns :
    Let(detectGenericPatterns(text), LAMBDA genericPatterns :
    Let(sumFrequency(possessivePatterns), LAMBDA totalPossessive :
    Let(sumFrequency(genericPatterns), LAMBDA totalGeneric :
    Let(IF totalPossessive + totalGeneric > 0
        THEN Rat(totalPossessive, totalPossessive + totalGeneric)
        ELSE IntNum(0), LAMBDA specificityRatio :
    Let(extractDominantNouns(possessivePatterns), LAMBDA dominantNouns :
        [ possessivePatterns |-> possessivePatterns,
          genericPatterns |-> genericPatterns,
          specificityRatio |-> specificityRatio,
          dominantNouns |-> dominantNouns,
          interpretation |-> interpretSpecificityRatio(specificityRatio),
          guidanceText |-> generateGuidance(specificityRatio, dominantNouns) ]))))))

analyzeSpecificityPatterns(text) ==
    Let(detectPossessivePatterns(text), LAMBDA possessivePatterns :
    Let(detectGenericPatterns(text), LAMBDA genericPatterns :
    Let(sumFrequency(possessivePatterns), LAMBDA totalPossessive :
    Let(sumFrequency(genericPatterns), LAMBDA totalGeneric :
    Let(IF totalGeneric > 0
        THEN Rat(totalPossessive, totalPossessive + totalGeneric)
        ELSE IntNum(0), LAMBDA specificityRatio :
    Let(extractDominantNouns(possessivePatterns), LAMBDA dominantNouns :
        [ possessivePatterns |-> possessivePatterns,
          genericPatterns |-> genericPatterns,
          specificityRatio |-> specificityRatio,
          dominantNouns |-> dominantNouns,
          interpretation |-> interpretSpecificityRatio(specificityRatio),
          guidanceText |-> generateGuidance(specificityRatio, dominantNouns) ]))))))

(***************************************************************************)
(* SpecSpecificity: a text is drawn, analyzeCorpus runs the specificity    *)
(* analyzer or the vocabulary-tier analyzer on it.  The texts are the      *)
(* concatenations of at most MaxPieces pieces, and the text of the         *)
(* end-to-end scenario.                                                    *)
(***************************************************************************)
ScenarioText ==
    <<
      "I", " ", "o", "w", "n", " ", "a", " ", "3", "0", "9", "0", ".", " ",
      "M", "y", " ", "r", "i", "g", " ", "r", "u", "n", "s", " ", "h", "o",
      "t", ".", " ", "T", "h", "e", " ", "t", "h", "e", "r", "m", "a", "l",
      " ", "p", "a", "d", "s", " ", "h", "e", "l", "p", ".", " ", "I", " ",
      "w", "i", "s", "h", " ", "I", "'", "d", " ", "k", "n", "o", "w", "n",
      " ", "s", "o", "o", "n", "e", "r", "." >>

SpecificityPieces ==
    { <<"m", "y", " ">>, <<"t", "h", "e", " ">>, <<"a", " ">>, <<"r", "i", "g", ".", " ">>, <<"r", "i", "g", " ">>, <<"R", "i", "g", "s", " ">> }

SpecificityTexts ==
    {Flatten(ps) : ps \in SeqsUpTo(SpecificityPieces, MaxPieces)} \cup {ScenarioText}

InitSpecificity ==
    /\ FsIdle
    /\ input \in SpecificityTexts
    /\ output = NotRun
    /\ pc = "ready"

AnalyzeSpecificityPatterns ==
    /\ pc = "ready"
    /\ output' = [fn |-> "analyzeSpecificityPatterns", value |-> analyzeSpecificityPatterns(input)]
    /\ pc' = "done"
    /\ UNCHANGED <<fsVars, input>>

TiersOfSpecificityText ==
    /\ pc = "ready"
    /\ output' = [fn |-> "analyzeVocabularyTiers", value |-> analyzeVocabularyTiers(input)]
    /\ pc' = "done"
    /\ UNCHANGED <<fsVars, input>>

NextSpecificity ==
    \/ AnalyzeSpecificityPatterns
    \/ TiersOfSpecificityText

SpecSpecificity == InitSpecificity /\ [][NextSpecificity]_vars

\* the entries of a list of patterns for a phrase, whatever its case
EntriesFor(patterns, category, phrase) ==
    {i \in 1..Len(patterns) :
        /\ patterns[i].category = category
        /\ toLowerCase(patterns[i].pattern) = phrase}

\* C24: given exactly the text 'I own a 3090. My rig runs hot. The thermal
\* pads help. I wish I'd known sooner.', analyzeVocabularyTiers reports no
\* AI-slop entries and no formal-verb entries, and analyzeSpecificityPatterns
\* reports at least one possessive pattern (for 'my rig') and at least one
\* generic-article pattern (for 'the thermal').
C24_ScenarioReports ==
    /\ (Ran("analyzeVocabularyTiers") /\ input = ScenarioText)
          => (output.value.aiSlop = <<>> /\ output.value.formalVerbs = <<>>)
    /\ (Ran("analyzeSpecificityPatterns") /\ input = ScenarioText)
          => /\ EntriesFor(output.value.possessivePatterns, "possessive", <<"m", "y", " ", "r", "i", "g">>) # {}
             /\ EntriesFor(output.value.genericPatterns, "generic_article", <<"t", "h", "e", " ", "t", "h", "e", "r", "m", "a", "l">>) # {}

\* C24 witness: the specificity analyzer has run on the scenario text and
\* found both a possessive and a generic pattern.
C24_Witness ==
    /\ Ran("analyzeSpecificityPatterns")
    /\ input = ScenarioText
    /\ output.value.possessivePatterns # <<>>
    /\ output.value.genericPatterns # <<>>

TotalPossessive == sumFrequency(output.value.possessivePatterns)
TotalGeneric == sumFrequency(output.value.genericPatterns)

\* C27: specificityRatio equals totalPossessive / (totalPossessive +
\* totalGeneric) whenever at least one possessive or generic pattern was
\* found, and 0 when none was found; it always lies in [0, 1].
C27_RatioOverAllPatterns ==
    Ran("analyzeSpecificityPatterns") =>
        /\ IF TotalPossessive + TotalGeneric > 0
           THEN Eq(output.value.specificityRatio,
                   Rat(TotalPossessive, TotalPossessive + TotalGeneric))
           ELSE Eq(output.value.specificityRatio, IntNum(0))
        /\ Leq(IntNum(0), output.value.specificityRatio)
        /\ Leq(output.value.specificityRatio, IntNum(1))
(***************************************************************************)
(* Claims on analyzeVocabulary, continued (checked under SpecText).        *)
(***************************************************************************)
\* the whitespace-separated tokens of the input that are the pronoun I
PronounTokens ==
    {i \in 1..Len(SelectSeq(split(input, "\\s"), NonEmpty)) :
        SelectSeq(split(input, "\\s"), NonEmpty)[i] = <<"I">>}

\* C30: in analyzeVocabulary every token counted in totalWords contributes to
\* exactly one entry of the word-frequency table: the counts of the table sum
\* to totalWords, and the pronoun 'I' is counted whenever it occurs.
C30_FrequencyTableCoversTotalWords ==
    Ran("analyzeVocabulary") =>
        /\ sumCounts(output.value.wordFrequency) = output.value.totalWords
        /\ PronounTokens # {} =>
              \E k \in 1..Len(output.value.wordFrequency) :
                  /\ output.value.wordFrequency[k].word = <<"i">>
                  /\ output.value.wordFrequency[k].count = Cardinality(PronounTokens)

====
